---- MODULE Spec2Model ----
(***************************************************************************)
(* Cadence training planner: session store (useSessions), Strava import    *)
(* reconciliation (App syncStrava), detail modal delete path and the token *)
(* lifecycle of the Strava / Google Calendar adapters.                     *)
(*                                                                         *)
(* The browser event loop is single-threaded: every action below is the    *)
(* code that runs between two awaits of one handler (a "tick").            *)
(***************************************************************************)
EXTENDS Integers, Sequences, FiniteSets, TLC

VARIABLES
    sessions,        \* useSessions.ts: const sessions = ref<ScheduledSession[]>([])
    cache,           \* localStorage[STORAGE_KEY] of useSessions (<< >> when absent)
    nextId,          \* number of uuidv4() values handed out so far
    selectedSession, \* App: selectedSession, the object the detail modal shows
    sy,              \* the running syncStrava() call (its locals and position)
    gh,              \* history of the running import (pre-state, fetched batch)
    tokens,          \* useStrava / useGoogleCalendar: const tokens = ref(null), per provider
    storage,         \* localStorage[STORAGE_KEY] of each provider
    error,           \* const error = ref<string | null>(null), per provider
    clockMs,         \* Date.now()
    op,              \* the running adapter operation (its position and history)
    currentWeekDate, \* useSessions.ts: const currentWeekDate = ref<Date>(new Date()), ms
    tz,              \* minutes the browser's local time is ahead of UTC
    remote,          \* the rows of the Supabase table 'sessions', in insertion order
    isLoading,       \* useSessions.ts: const isLoading = ref(false)
    syncError,       \* useSessions.ts: const syncError = ref<string | null>(null)
    calls,           \* the store operations waiting for their remote calls
    sync,            \* the running syncFromSupabase() call (its position and history)
    dbh,             \* history of the store: has a remote call failed, operations
                     \* started, the operation that returned last
    calendar,        \* the events of the user's primary Google calendar
    cal,             \* the running adapter call of the page (its position and history)
    det              \* the running fetchActivitiesWithDetails call (position and history)

storeVars == <<sessions, cache, nextId, selectedSession, sy, gh>>
tokVars == <<tokens, storage, error, clockMs, op>>
dbVars == <<remote, isLoading, syncError, calls, sync, dbh>>
calVars == <<calendar, cal, det>>
envVars == <<currentWeekDate, tz, dbVars, calVars>>
vars == <<sessions, cache, nextId, selectedSession, sy, gh,
          tokens, storage, error, clockMs, op,
          currentWeekDate, tz,
          remote, isLoading, syncError, calls, sync, dbh,
          calendar, cal, det>>

\* ------------------------------------------------------------------ bounds
MaxId == 3           \* uuidv4() values available in one behaviour
MaxBatch == 2        \* activities in one fetched batch
MaxItems == 1        \* hand-written items in one imported JSON document
MaxIdSmall == 2      \* uuidv4() values before the user stops adding (SpecJson, SpecUI)
MaxBatchSmall == 1   \* activities in one fetched batch (SpecJson, SpecUI)
MaxClockMs == 1500   \* the clock stops there

\* ------------------------------------------------------------------ domains
None == "none"       \* an undefined string field
Null == << >>        \* null / undefined where an object may stand: << >> or <<object>>
Some(x) == <<x>>
Dates == {"2025-03-10", "2025-03-11"}
Titles == {"Morning Ride", "Gym"}
UserSports == {"cycling", "strength"}
PlannedTypes == {"endurance"}
Descriptions == {"easy"}

\* ------------------------------------------------------------------ helpers
Range(s) == {s[i] : i \in 1..Len(s)}

\* Array.prototype.findIndex: first index whose element passes, 0 for -1
FindIndex(s, Test(_)) ==
    IF \E i \in 1..Len(s) : Test(s[i])
    THEN CHOOSE i \in 1..Len(s) : Test(s[i]) /\ \A j \in 1..(i - 1) : ~Test(s[j])
    ELSE 0

\* Array.prototype.splice(index, 1)
Splice1(s, i) == SubSeq(s, 1, i - 1) \o SubSeq(s, i + 1, Len(s))

\* `${title}-${date}`: the concatenation, as its three parts
Key(title, date) == <<title, "-", date>>

\* String.prototype.split('T')[0] on a timestamp held as <<date, "T", time>>:
\* everything before the first "T"
SplitT0(ts) ==
    LET i == FindIndex(ts, LAMBDA c : c = "T")
    IN  IF i = 0 THEN ts ELSE SubSeq(ts, 1, i - 1)

\* The day part as the string the code compares: a one-part prefix is that part
DayOf(ts) == LET p == SplitT0(ts) IN IF Len(p) = 1 THEN p[1] ELSE None

\* Math.round(x / 60) for x >= 0
RoundDiv60(x) == (x + 30) \div 60

\* ------------------------------------------------------------ session store
\* { ...template, id: uuidv4(), date }
NewSession(template, id, date) ==
    [id |-> id, date |-> date, sport |-> template.sport, type |-> template.type,
     title |-> template.title, description |-> template.description,
     duration_min |-> template.duration_min,
     planned_title |-> template.planned_title,
     planned_description |-> template.planned_description]

\* addSession, local part: sessions.value.push(newSession)
addSessionLocal(ss, template, id, date) == Append(ss, NewSession(template, id, date))

\* removeSession, local part: findIndex by id, splice when found
removeSessionLocal(ss, sessionId) ==
    LET index == FindIndex(ss, LAMBDA s : s.id = sessionId)
    IN  IF index # 0 THEN Splice1(ss, index) ELSE ss

\* a change of date that reaches every session of the list
updateSessionDateLocal_all(ss, sessionId, newDate) ==
    [i \in 1..Len(ss) |-> [ss[i] EXCEPT !.date = newDate]]
\* updateSessionDate, local part: find by id, session.date = newDate
updateSessionDateLocal(ss, sessionId, newDate) ==
    LET index == FindIndex(ss, LAMBDA s : s.id = sessionId)
    IN  IF index # 0 THEN [ss EXCEPT ![index].date = newDate] ELSE ss

\* saveToCache: localStorage.setItem(STORAGE_KEY, JSON.stringify(sessions.value))
saveToCache(ss) == Some(ss)

\* ------------------------------------------------------------ Strava adapter
cyclingTypes == {"Ride", "VirtualRide", "MountainBikeRide", "GravelRide", "EBikeRide"}
runningTypes == {"Run", "TrailRun", "VirtualRun", "Treadmill", "Soccer", "Football"}
strengthTypes == {"WeightTraining", "Workout", "Crossfit", "Yoga", "HIIT"}

\* a mapping that looks at sport_type alone
mapStravaToSport_sportTypeOnly(activity) ==
    IF activity.sport_type \in cyclingTypes THEN "cycling"
    ELSE IF activity.sport_type \in runningTypes THEN "running"
    ELSE IF activity.sport_type \in strengthTypes THEN "strength"
    ELSE None
\* mapStravaToSport: sport_type || type against the three closed lists
mapStravaToSport(activity) ==
    LET type == IF activity.sport_type # "" THEN activity.sport_type ELSE activity.type
    IN  IF type \in cyclingTypes THEN "cycling"
        ELSE IF type \in runningTypes THEN "running"
        ELSE IF type \in strengthTypes THEN "strength"
        ELSE None

\* The { session, date } candidate convertToSessions builds for one activity
Candidate(activity) ==
    [session |-> [sport |-> mapStravaToSport(activity), type |-> "strava",
                  title |-> activity.name,
                  duration_min |-> RoundDiv60(activity.moving_time),
                  description |-> "km",
                  planned_title |-> None, planned_description |-> None],
     date |-> DayOf(activity.start_date_local)]

\* convertToSessions: map each activity, drop the unmapped ones (filter item !== null)
convertToSessions(activities) ==
    LET mapped == SelectSeq(activities, LAMBDA a : mapStravaToSport(a) # None)
    IN  [i \in 1..Len(mapped) |-> Candidate(mapped[i])]

\* ------------------------------------------------- syncStrava (reconciliation)
\* existingKeys: the `${title}-${date}` keys of the sessions of type 'strava'
existingKeys(ss) == {Key(s.title, s.date) : s \in {x \in Range(ss) : x.type = "strava"}}

\* newActivities: the fetched activities whose key is not in existingKeys
newActivities(basicActivities, ss) ==
    SelectSeq(basicActivities,
              LAMBDA a : Key(a.name, DayOf(a.start_date_local)) \notin existingKeys(ss))

\* the match without the sport test (any planned session of the date)
plannedSameSport_anySport(ss, session, date) ==
    FindIndex(ss, LAMBDA s : s.date = date /\ s.type # "strava")

\* sessions.value.find(s => s.date === date && s.sport === session.sport && s.type !== 'strava')
\* as an index (0 when undefined)
plannedSameSport(ss, session, date) ==
    FindIndex(ss, LAMBDA s : s.date = date /\ s.sport = session.sport /\ s.type # "strava")

\* Input domains --------------------------------------------------------------
Template(sport, type, title, duration, description) ==
    [sport |-> sport, type |-> type, title |-> title, duration_min |-> duration,
     description |-> description, planned_title |-> None, planned_description |-> None]

\* what the add form produces (AddSessionModal handleAddFromForm)
FormTemplates ==
    {Template(sp, ty, ti, 60, de) :
        sp \in UserSports, ty \in PlannedTypes, ti \in Titles, de \in Descriptions}

\* what the add form produces when the duration field is edited as well
JsonTemplates ==
    {Template("cycling", "endurance", "Morning Ride", 45, "easy"),
     Template("cycling", "endurance", "Morning Ride", 60, "easy")}

\* the objects of a hand-written JSON document: no id, a date or none
Item(sport, type, title, duration, date) ==
    [id |-> 0, date |-> date, sport |-> sport, type |-> type, title |-> title,
     description |-> "easy", duration_min |-> duration,
     planned_title |-> None, planned_description |-> None]
WrittenItems ==
    {Item("cycling", "endurance", "Morning Ride", 60, None),
     Item("cycling", "endurance", "Morning Ride", 45, "2025-03-10"),
     Item("cycling", "strava", "Morning Ride", 60, "2025-03-10")}

\* what the activity list of the provider may hold
Activity(name, sport_type, type, date, time) ==
    [name |-> name, sport_type |-> sport_type, type |-> type,
     start_date_local |-> <<date, "T", time>>, moving_time |-> 3590]
Activities ==
    {Activity("Morning Ride", "Ride", "Ride", "2025-03-10", "08:00:00Z"),
     Activity("Morning Ride", "Ride", "Ride", "2025-03-11", "08:00:00Z"),
     Activity("Gym", "", "WeightTraining", "2025-03-10", "18:00:00Z"),
     Activity("Gym", "Hike", "Hike", "2025-03-11", "18:00:00Z")}
BatchesUpTo(max) == UNION {[1..n -> Activities] : n \in 0..max}
Batches == BatchesUpTo(MaxBatch)

\* Process and history records --------------------------------------------------
SyIdle == [pc |-> "idle", newActs |-> << >>, queue |-> << >>, cur |-> Null,
           added |-> 0, replacedPlanned |-> 0, updated |-> 0, removedPlanned |-> 0,
           newIds |-> << >>, spotlight |-> Null]
GhIdle == [pre |-> << >>, batch |-> << >>, clean |-> TRUE,
           loaded |-> FALSE, items |-> << >>, replace |-> FALSE, kept |-> << >>]

\* the adapters and what their servers may answer
Providers == {"strava", "google"}
AccessTokens == {"at1", "at2"}
RefreshTokens == {"rt", None}      \* data.refresh_token, undefined when left out
ExpiresIn == {60, 61}              \* seconds of validity the server grants
ClockSteps == {500, 1000}          \* milliseconds between two events
Statuses == {"200", "401", "500"}
OpKinds(pr) == IF pr = "strava" THEN {"fetchActivities", "fetchActivityDetail"}
               ELSE {"syncToCalendar", "deleteAllEvents"}
OpIdle == [pc |-> "idle", kind |-> None, pr |-> None, startTokens |-> Null,
           startMs |-> 0, refreshCalled |-> FALSE, refreshFailed |-> FALSE,
           exchanges |-> 0, requests |-> 0, bearer |-> None, outcome |-> None,
           answer |-> None]

Running == sy.pc \notin {"idle", "done"}

\* what a user operation leaves of the import's record: a finished import is
\* forgotten, a running one is marked as interleaved
SyAfterUserOp == IF sy.pc = "done" THEN SyIdle ELSE sy
GhDirty == [GhIdle EXCEPT !.clean = FALSE]
GhAfterUserOp == IF Running THEN GhDirty ELSE GhIdle

InitCore ==
    /\ sessions = << >>
    /\ cache = Null
    /\ nextId = 0
    /\ selectedSession = Null
    /\ sy = SyIdle
    /\ gh = GhIdle
    /\ tokens = [pr \in Providers |-> Null]
    /\ storage = [pr \in Providers |-> Null]
    /\ error = [pr \in Providers |-> None]
    /\ clockMs = 0
    /\ op = OpIdle

\* ------------------------------------------------------------ user operations
\* handleAddSessions -> addSessions(templates, date): push all, saveToCache
addSessions(templates, date) ==
    /\ selectedSession = Null
    /\ nextId + Len(templates) <= MaxId
    /\ sessions' = sessions \o
           [i \in 1..Len(templates) |-> NewSession(templates[i], nextId + i, date)]
    /\ cache' = saveToCache(sessions')
    /\ nextId' = nextId + Len(templates)
    /\ sy' = SyAfterUserOp /\ gh' = GhAfterUserOp
    /\ UNCHANGED <<selectedSession, tokVars, envVars>>

\* WeekCalendar onDrop -> handleUpdateDate -> updateSessionDate(id, newDate);
\* only sessions of another type than 'strava' are draggable
handleUpdateDate(i, newDate) ==
    /\ selectedSession = Null
    /\ sessions[i].type # "strava"
    /\ sessions[i].date # newDate
    /\ sessions' = updateSessionDateLocal(sessions, sessions[i].id, newDate)
    /\ cache' = saveToCache(sessions')
    /\ sy' = SyAfterUserOp /\ gh' = GhAfterUserOp
    /\ UNCHANGED <<nextId, selectedSession, tokVars, envVars>>

\* WeekCalendar click -> handleSelectSession: the modal opens on that object
handleSelectSession(i) ==
    /\ selectedSession = Null
    /\ selectedSession' = Some([id |-> sessions[i].id, type |-> sessions[i].type])
    /\ UNCHANGED <<sessions, cache, nextId, sy, gh, tokVars, envVars>>

\* modal @close
closeModal ==
    /\ selectedSession # Null
    /\ selectedSession' = Null
    /\ UNCHANGED <<sessions, cache, nextId, sy, gh, tokVars, envVars>>

\* a delete button without the v-if
deleteButtonShown_always(session) == TRUE

\* v-if on the delete button of SessionDetailModal
deleteButtonShown(session) == session.type # "strava"

\* delete button -> handleDelete -> emit('delete', id), emit('close')
\*   -> handleDeleteSession -> removeSession(id)
handleDelete ==
    /\ selectedSession # Null
    /\ deleteButtonShown(selectedSession[1])
    /\ sessions' = removeSessionLocal(sessions, selectedSession[1].id)
    /\ cache' = IF sessions' # sessions THEN saveToCache(sessions') ELSE cache
    /\ selectedSession' = Null
    /\ sy' = SyAfterUserOp /\ gh' = GhAfterUserOp
    /\ UNCHANGED <<nextId, tokVars, envVars>>

\* ------------------------------------------------------------ JSON import/export
\* JSON text of an object: its <<key, value>> members in order; JSON.stringify
\* leaves out the members whose value is undefined
Fields == <<"id", "date", "sport", "type", "title", "description", "duration_min",
            "planned_title", "planned_description">>
OptionalFields == {"planned_title", "planned_description"}
Stringify(obj) ==
    SelectSeq([i \in 1..Len(Fields) |-> <<Fields[i], obj[Fields[i]]>>],
              LAMBDA kv : ~(kv[1] \in OptionalFields /\ kv[2] = None))

\* JSON.parse of one object: a member that is absent reads as undefined
\* (None for a string, 0 for the id)
Member(json, k, absent) ==
    LET i == FindIndex(json, LAMBDA kv : kv[1] = k)
    IN  IF i = 0 THEN absent ELSE json[i][2]
Parse(json) ==
    [id |-> Member(json, "id", 0), date |-> Member(json, "date", None),
     sport |-> Member(json, "sport", None), type |-> Member(json, "type", None),
     title |-> Member(json, "title", None),
     description |-> Member(json, "description", None),
     duration_min |-> Member(json, "duration_min", 0),
     planned_title |-> Member(json, "planned_title", None),
     planned_description |-> Member(json, "planned_description", None)]

\* exportToJson: JSON.stringify(sessions.value.filter(s => s.type !== 'strava'))
exportToJson(ss) ==
    LET plannedOnly == SelectSeq(ss, LAMBDA x : x.type # "strava")
    IN  [i \in 1..Len(plannedOnly) |-> Stringify(plannedOnly[i])]

\* FileImport parseAndEmit: JSON.parse of an array of objects
ParseAll(text) == [i \in 1..Len(text) |-> Parse(text[i])]

\* 'id' in item && 'date' in item
isFullSession(item) == item.id # 0 /\ item.date # None

\* jsonData.map(...): a full session is taken as it is, any other item gets a
\* uuid and its own date or today's
newSessionsOf(jsonData, firstId, today) ==
    [i \in 1..Len(jsonData) |->
        IF isFullSession(jsonData[i]) THEN jsonData[i]
        ELSE [jsonData[i] EXCEPT
                !.id = firstId + Cardinality({j \in 1..i : ~isFullSession(jsonData[j])}),
                !.date = IF jsonData[i].date # None THEN jsonData[i].date ELSE today]]

\* no filter at all
keptOnReplace_all(ss, newSessions) == ss

\* the filter of replaceExisting: drop the sessions of another type than 'strava'
\* on the dates of the import
keptOnReplace(ss, newSessions) ==
    LET importDates == {newSessions[i].date : i \in 1..Len(newSessions)}
    IN  SelectSeq(ss, LAMBDA x : ~(x.date \in importDates /\ x.type # "strava"))

\* existing && existing.type !== 'strava': the matched session may be overwritten
overwritable_any(existing) == TRUE
overwritable(existing) == existing.type # "strava"

\* one turn of newSessions.forEach
LoadTurn(ss, newSession) ==
    LET key == Key(newSession.title, newSession.date)
        existingIndex == FindIndex(ss, LAMBDA x : Key(x.title, x.date) = key)
    IN  IF existingIndex # 0
        THEN IF overwritable(ss[existingIndex])
             THEN [ss EXCEPT ![existingIndex] = newSession]
             ELSE ss
        ELSE Append(ss, newSession)

RECURSIVE LoadForEach(_, _)
LoadForEach(ss, q) == IF q = << >> THEN ss ELSE LoadForEach(LoadTurn(ss, Head(q)), Tail(q))

\* the documents the import dialog may receive with the store at ss: up to
\* MaxItems objects, hand-written or taken from the export, or the whole export
JsonDocuments(ss) ==
    LET export == ParseAll(exportToJson(ss))
        objects == WrittenItems \cup Range(export)
    IN  {export} \cup UNION {[1..n -> objects] : n \in 1..MaxItems}

\* handleImport -> loadFromJson(jsonData, replaceExisting), up to its first await
loadFromJson(jsonData, replaceExisting, today) ==
    /\ selectedSession = Null
    /\ LET fresh == Cardinality({j \in 1..Len(jsonData) : ~isFullSession(jsonData[j])})
           newSessions == newSessionsOf(jsonData, nextId, today)
           kept == IF replaceExisting THEN keptOnReplace(sessions, newSessions)
                   ELSE sessions
       IN  /\ nextId + fresh <= MaxId
           /\ nextId' = nextId + fresh
           /\ sessions' = LoadForEach(kept, newSessions)
           /\ cache' = saveToCache(sessions')
           /\ gh' = [GhIdle EXCEPT !.loaded = TRUE, !.pre = sessions, !.items = newSessions,
                                   !.replace = replaceExisting, !.kept = kept]
    /\ sy' = SyAfterUserOp
    /\ UNCHANGED <<selectedSession, tokVars, envVars>>

\* ------------------------------------------------------------ syncStrava ticks
\* click on "Synchroniser": syncStrava() runs to `await fetchActivities(30)`
syncStrava ==
    /\ selectedSession = Null
    /\ ~Running
    /\ sy' = [SyIdle EXCEPT !.pc = "fetch"]
    /\ gh' = GhIdle
    /\ UNCHANGED <<sessions, cache, nextId, selectedSession, tokVars, envVars>>

\* The spotlight choice after the loop:
\* sessions.value.find(s => s.id === newIds[newIds.length - 1])
lastNewSession(ss, newIds) ==
    IF newIds = << >> THEN Null
    ELSE LET i == FindIndex(ss, LAMBDA s : s.id = newIds[Len(newIds)])
         IN  IF i = 0 THEN Null ELSE Some(ss[i])

\* The loop of syncStrava from its test to the next await (or to the end of the
\* function): the planned session of the same sport and day is looked up and
\* removed, or else the activity is added at once.
LoopTick(ss, q, added, replaced, newIds) ==
    IF q = << >>
    THEN /\ sy' = [SyIdle EXCEPT !.pc = "done", !.added = added,
                                 !.replacedPlanned = replaced, !.newIds = newIds,
                                 !.spotlight = lastNewSession(ss, newIds)]
         /\ sessions' = ss
         /\ UNCHANGED <<cache, nextId>>
    ELSE LET item == Head(q)
             p == plannedSameSport(ss, item.session, item.date)
             base == [sy EXCEPT !.newActs = << >>, !.queue = q, !.added = added,
                                !.replacedPlanned = replaced, !.newIds = newIds]
         IN  IF p # 0
             THEN /\ sessions' = removeSessionLocal(ss, ss[p].id)
                  /\ cache' = saveToCache(sessions')
                  /\ sy' = [base EXCEPT !.pc = "deleted",
                              !.cur = Some([item.session EXCEPT
                                         !.planned_title = ss[p].title,
                                         !.planned_description = ss[p].description])]
                  /\ UNCHANGED nextId
             ELSE /\ nextId < MaxId
                  /\ sessions' = addSessionLocal(ss, item.session, nextId + 1, item.date)
                  /\ cache' = saveToCache(sessions')
                  /\ nextId' = nextId + 1
                  /\ sy' = [base EXCEPT !.pc = "created", !.cur = Some(item.session)]

\* fetchActivities resolved with `batch` ([] when it failed): filter the new ones
syncFetched(batch) ==
    /\ sy.pc = "fetch"
    /\ gh' = IF gh.clean THEN [gh EXCEPT !.pre = sessions, !.batch = batch] ELSE gh
    /\ LET new == newActivities(batch, sessions)
       IN  IF new = << >>
           THEN sy' = [SyIdle EXCEPT !.pc = "done"]
           ELSE sy' = [sy EXCEPT !.pc = "details", !.newActs = new]
    /\ UNCHANGED <<sessions, cache, nextId, selectedSession, tokVars, envVars>>

\* fetchActivitiesWithDetails resolved (one record per new activity, the detailed
\* or the basic one): convertToSessions, then the loop starts
syncDetailed ==
    /\ sy.pc = "details"
    /\ LoopTick(sessions, convertToSessions(sy.newActs), 0, 0, << >>)
    /\ UNCHANGED <<selectedSession, gh, tokVars, envVars>>

\* `await removeSession(plannedSameSport.id)` resolved: replacedPlanned++,
\* then addSession(sessionToAdd, date) up to its await
syncRemoved ==
    /\ sy.pc = "deleted"
    /\ nextId < MaxId
    /\ sessions' = addSessionLocal(sessions, sy.cur[1], nextId + 1, Head(sy.queue).date)
    /\ cache' = saveToCache(sessions')
    /\ nextId' = nextId + 1
    /\ sy' = [sy EXCEPT !.pc = "created", !.replacedPlanned = @ + 1]
    /\ UNCHANGED <<selectedSession, gh, tokVars, envVars>>

\* `await addSession(sessionToAdd, date)` resolved: the last element of the list
\* is taken for the new session, added++, and the loop goes on
syncAdded ==
    /\ sy.pc = "created"
    /\ LET lastSession == IF sessions = << >> THEN Null ELSE Some(sessions[Len(sessions)])
           ids == IF lastSession # Null THEN Append(sy.newIds, lastSession[1].id)
                  ELSE sy.newIds
       IN  LoopTick(sessions, Tail(sy.queue), sy.added + 1, sy.replacedPlanned, ids)
    /\ UNCHANGED <<selectedSession, gh, tokVars, envVars>>

\* ------------------------------------- syncStrava of src/src/App.vue (one tick)
\* One turn of sessionsToAdd.forEach: st holds the list, the cache, the uuid count
\* and the counters.
AppTurn(st, item) ==
    LET key == Key(item.session.title, item.date)
        existingIndex == FindIndex(st.ss, LAMBDA s : Key(s.title, s.date) = key)
    IN  IF existingIndex # 0
        THEN \* sessions.value[existingIndex] = { ...session, id: existing.id, date }
             [st EXCEPT !.ss[existingIndex] =
                            NewSession(item.session, st.ss[existingIndex].id, item.date),
                        !.updated = @ + 1]
        ELSE LET plannedOnSameDay ==
                     SelectSeq(st.ss, LAMBDA s : s.date = item.date /\ s.type # "strava")
                 RECURSIVE RemoveAll(_, _)
                 RemoveAll(ss, ps) ==
                     IF ps = << >> THEN ss
                     ELSE RemoveAll(removeSessionLocal(ss, Head(ps).id), Tail(ps))
                 afterRemove == RemoveAll(st.ss, plannedOnSameDay)
                 afterAdd == addSessionLocal(afterRemove, item.session, st.nid + 1, item.date)
             IN  [st EXCEPT !.ss = afterAdd,
                            !.cache = saveToCache(afterAdd),
                            !.nid = @ + 1,
                            !.removedPlanned = @ + Len(plannedOnSameDay),
                            !.newIds = Append(@, afterAdd[Len(afterAdd)].id),
                            !.added = @ + 1]

RECURSIVE AppForEach(_, _)
AppForEach(st, q) == IF q = << >> THEN st ELSE AppForEach(AppTurn(st, Head(q)), Tail(q))

\* click on "Synchroniser": syncStrava() of App.vue runs to `await fetchActivities(30)`
syncStravaApp ==
    /\ selectedSession = Null
    /\ ~Running
    /\ sy' = [SyIdle EXCEPT !.pc = "fetchApp"]
    /\ gh' = GhIdle
    /\ UNCHANGED <<sessions, cache, nextId, selectedSession, tokVars, envVars>>

\* fetchActivities resolved with `batch`: convertToSessions and the whole forEach
syncAppFetched(batch) ==
    /\ sy.pc = "fetchApp"
    /\ LET q == convertToSessions(batch)
           st == AppForEach([ss |-> sessions, cache |-> cache, nid |-> nextId,
                             added |-> 0, updated |-> 0, removedPlanned |-> 0,
                             newIds |-> << >>], q)
       IN  /\ st.nid <= MaxId
           /\ sessions' = st.ss
           /\ cache' = st.cache
           /\ nextId' = st.nid
           /\ sy' = [SyIdle EXCEPT !.pc = "done", !.added = st.added,
                                   !.updated = st.updated,
                                   !.removedPlanned = st.removedPlanned,
                                   !.newIds = st.newIds,
                                   !.spotlight = lastNewSession(st.ss, st.newIds)]
    /\ gh' = IF gh.clean THEN [gh EXCEPT !.pre = sessions, !.batch = batch] ELSE gh
    /\ UNCHANGED <<selectedSession, tokVars, envVars>>

\* ------------------------------------------------- token lifecycle (adapters)
\* the 60 of `expires_at < now + 60`
BUFFER == 60

\* Math.floor(Date.now() / 1000)
Now(ms) == ms \div 1000

\* saveTokens: the ref and the localStorage entry
saveTokens(pr, newTokens) ==
    /\ tokens' = [tokens EXCEPT ![pr] = Some(newTokens)]
    /\ storage' = [storage EXCEPT ![pr] = Some(newTokens)]

\* clearTokens: tokens.value = null, localStorage.removeItem(STORAGE_KEY)
clearTokens(pr) ==
    /\ tokens' = [tokens EXCEPT ![pr] = Null]
    /\ storage' = [storage EXCEPT ![pr] = Null]

\* a test that sends the token holding exactly the buffer to the refresh as well
needsRefresh_inclusive(t, ms) == t.expires_at <= Now(ms) + BUFFER

\* getValidToken: tokens.value.expires_at < now + 60
needsRefresh(t, ms) == t.expires_at < Now(ms) + BUFFER

\* the guard of refreshAccessToken: `!tokens.value` for Strava,
\* `!tokens.value?.refresh_token` for Google
canExchange(pr, tok) ==
    /\ tok # Null
    /\ pr = "google" => tok[1].refresh_token # None

\* the operations that reset error.value when they start, and store the
\* message of a caught Error in it
keepsError(kind) == kind \in {"fetchActivities", "syncToCalendar"}
notConnected(pr) == IF pr = "strava" THEN "Non connecte a Strava" ELSE "Non connecte a Google"

\* getValidToken returned null: the operation throws 'Non connecte ...' and
\* catches it (error.value for fetchActivities and syncToCalendar; null for
\* fetchActivityDetail and 0 for deleteAllEvents, error.value untouched)
opFails(o) ==
    /\ op' = [o EXCEPT !.pc = "done",
                       !.outcome = IF keepsError(o.kind) THEN "authError" ELSE "silent"]
    /\ error' = IF keepsError(o.kind) THEN [error EXCEPT ![o.pr] = notConnected(o.pr)]
                ELSE error

\* the provider request leaves with the token getValidToken returned
opSends(o, accessToken) ==
    /\ op' = [o EXCEPT !.pc = "requesting", !.requests = @ + 1, !.bearer = accessToken]
    /\ error' = IF keepsError(o.kind) THEN [error EXCEPT ![o.pr] = None] ELSE error

\* an operation is called and runs to its first fetch: getValidToken, and
\* refreshAccessToken up to its request when the token is too old
startOp(pr, kind) ==
    /\ op.pc \in {"idle", "done"}
    /\ LET o == [OpIdle EXCEPT !.kind = kind, !.pr = pr,
                               !.startTokens = tokens[pr], !.startMs = clockMs]
       IN  IF tokens[pr] = Null
           THEN opFails(o)
           ELSE IF needsRefresh(tokens[pr][1], clockMs)
                THEN IF canExchange(pr, tokens[pr])
                     THEN /\ op' = [o EXCEPT !.pc = "refreshing", !.refreshCalled = TRUE,
                                             !.exchanges = @ + 1]
                          /\ error' = IF keepsError(kind)
                                      THEN [error EXCEPT ![pr] = None] ELSE error
                     ELSE opFails([o EXCEPT !.refreshCalled = TRUE, !.refreshFailed = TRUE])
                ELSE opSends(o, tokens[pr][1].access_token)
    /\ UNCHANGED <<tokens, storage, clockMs, storeVars, envVars>>

\* the refresh exchange answered: !response.ok or a thrown error clear the
\* tokens; otherwise the new tokens are saved and the provider request leaves
refreshResponded(ok, data) ==
    /\ op.pc = "refreshing"
    /\ LET pr == op.pr
           \* data.refresh_token || tokens.value.refresh_token throws on a null ref
           throws == pr = "google" /\ data.refresh_token = None /\ tokens[pr] = Null
           newTokens ==
               IF pr = "strava"
               THEN [access_token |-> data.access_token,
                     refresh_token |-> data.refresh_token,
                     expires_at |-> Now(clockMs) + data.expires]
               ELSE [access_token |-> data.access_token,
                     refresh_token |-> IF data.refresh_token # None
                                       THEN data.refresh_token
                                       ELSE tokens[pr][1].refresh_token,
                     expires_at |-> Now(clockMs) + data.expires]
       IN  IF ~ok \/ throws
           THEN /\ clearTokens(pr)
                /\ opFails([op EXCEPT !.refreshFailed = TRUE])
           ELSE /\ saveTokens(pr, newTokens)
                /\ op' = [op EXCEPT !.pc = "requesting", !.requests = @ + 1,
                                    !.bearer = newTokens.access_token]
                /\ UNCHANGED error
    /\ UNCHANGED <<clockMs, storeVars, envVars>>

\* the provider answered the operation's request
providerResponded(status) ==
    /\ op.pc = "requesting"
    /\ IF op.kind = "fetchActivities" /\ status = "401"
       THEN /\ clearTokens(op.pr)
            /\ error' = [error EXCEPT ![op.pr] = "Session expiree, reconnectez-vous"]
            /\ op' = [op EXCEPT !.pc = "done", !.outcome = "expired", !.answer = status]
       ELSE /\ UNCHANGED <<tokens, storage>>
            /\ IF op.kind = "fetchActivities" /\ status # "200"
               THEN /\ error' = [error EXCEPT ![op.pr] =
                                     "Erreur lors de la recuperation des activites"]
                    /\ op' = [op EXCEPT !.pc = "done", !.outcome = "error", !.answer = status]
               ELSE /\ UNCHANGED error
                    /\ op' = [op EXCEPT !.pc = "done", !.answer = status,
                                 !.outcome = IF status = "200" \/ op.kind = "syncToCalendar"
                                             THEN "data" ELSE "silent"]
    /\ UNCHANGED <<clockMs, storeVars, envVars>>

\* the OAuth redirect came back (page load) and the code was exchanged
handleCallback(pr, ok, data) ==
    /\ op.pc \in {"idle", "done"}
    /\ op' = OpIdle
    /\ IF ok
       THEN /\ saveTokens(pr, [access_token |-> data.access_token,
                               refresh_token |-> data.refresh_token,
                               expires_at |-> Now(clockMs) + data.expires])
            /\ error' = [error EXCEPT ![pr] = None]
       ELSE /\ error' = [error EXCEPT ![pr] = "Echec de l'authentification"]
            /\ UNCHANGED <<tokens, storage>>
    /\ UNCHANGED <<clockMs, storeVars, envVars>>

\* disconnect: clearTokens
disconnect(pr) ==
    /\ tokens[pr] # Null
    /\ clearTokens(pr)
    /\ UNCHANGED <<error, clockMs, op, storeVars, envVars>>

\* time passes
tick(step) ==
    /\ clockMs + step <= MaxClockMs
    /\ clockMs' = clockMs + step
    /\ UNCHANGED <<tokens, storage, error, op, storeVars, envVars>>

\* what a token endpoint may answer
TokenData ==
    [access_token : AccessTokens, refresh_token : RefreshTokens, expires : ExpiresIn]

\* ------------------------------------------------------------ weekly statistics
\* Instants are milliseconds since 2025-03-09T00:00:00Z, the first day of the
\* calendar below (a Sunday); the local time is UTC plus a fixed offset z (min)
DayMs == 24 * 60 * 60 * 1000
CalendarDays ==
    <<"2025-03-09", "2025-03-10", "2025-03-11", "2025-03-12", "2025-03-13",
      "2025-03-14", "2025-03-15", "2025-03-16", "2025-03-17", "2025-03-18",
      "2025-03-19", "2025-03-20", "2025-03-21", "2025-03-22", "2025-03-23">>
TzOffsets == {-300, 0, 60}     \* New York (EST), London, Paris
DayIndex(date) == CHOOSE i \in 1..Len(CalendarDays) : CalendarDays[i] = date

\* new Date('YYYY-MM-DD'): a date-only string is read as midnight UTC
DateParse(date) == (DayIndex(date) - 1) * DayMs
\* the local calendar day of an instant (0 = 2025-03-09), the local midnight of a day
LocalDay(t, z) == (t + z * 60000) \div DayMs
LocalMidnight(day, z) == day * DayMs - z * 60000
\* Date.prototype.getDay(): 0 is Sunday
getDay(t, z) == LocalDay(t, z) % 7

\* WeekCalendar getMonday(d): setDate(getDate() - day + (day === 0 ? -6 : 1)),
\* setHours(0, 0, 0, 0)
getMonday(d, z) ==
    LET day == getDay(d, z)
        diff == LocalDay(d, z) - day + (IF day = 0 THEN -6 ELSE 1)
    IN  LocalMidnight(diff, z)

\* WeekCalendar formatDate(date): the local year, month and day
formatDate(t, z) == CalendarDays[LocalDay(t, z) + 1]

\* WeekCalendar weekDays: the seven dates of the displayed week
weekDays(currentWeekStart, z) ==
    [i \in 1..7 |-> formatDate(currentWeekStart + (i - 1) * DayMs, z)]

\* useSessions getWeekDates(date): local Monday 00:00:00.000 .. Sunday 23:59:59.999
getWeekDates(date, z) ==
    LET day == getDay(date, z)
        diff == LocalDay(date, z) - day + (IF day = 0 THEN -6 ELSE 1)
        start == LocalMidnight(diff, z)
    IN  [start |-> start, end |-> LocalMidnight(diff + 6, z) + DayMs - 1]

\* weeklyStats, the filter: new Date(s.date) >= start && new Date(s.date) <= end
weekSessions(ss, date, z) ==
    LET w == getWeekDates(date, z)
    IN  SelectSeq(ss, LAMBDA s : DateParse(s.date) >= w.start /\ DateParse(s.date) <= w.end)

\* weeklyStats, the accumulators. An hours field holds sixtieths of an hour:
\* hours = duration_min / 60 is kept as its numerator duration_min
SportZero == [hours |-> 0, planned |-> 0, accomplished |-> 0]
StatsZero(n) ==
    [cycling |-> SportZero, running |-> SportZero, strength |-> SportZero,
     total |-> [hours |-> 0, sessions |-> n],
     planned |-> [hours |-> 0, sessions |-> 0],
     accomplished |-> [hours |-> 0, sessions |-> 0]]

\* stats[sport].hours += hours, then accomplished or planned += hours
SportAdd(st, hours, isAccomplished) ==
    [hours |-> st.hours + hours,
     planned |-> IF isAccomplished THEN st.planned ELSE st.planned + hours,
     accomplished |-> IF isAccomplished THEN st.accomplished + hours ELSE st.accomplished]

\* weeklyStats, one turn of weekSessions.forEach
StatsTurn(stats, session) ==
    LET hours == session.duration_min
        isAccomplished == session.type = "strava"
        bySport ==
            IF session.sport = "cycling"
                THEN [stats EXCEPT !.cycling = SportAdd(@, hours, isAccomplished)]
            ELSE IF session.sport = "running"
                THEN [stats EXCEPT !.running = SportAdd(@, hours, isAccomplished)]
            ELSE IF session.sport = "strength"
                THEN [stats EXCEPT !.strength = SportAdd(@, hours, isAccomplished)]
            ELSE stats
        withTotal == [bySport EXCEPT !.total.hours = @ + hours]
    IN  IF isAccomplished
            THEN [withTotal EXCEPT !.accomplished.hours = @ + hours,
                                   !.accomplished.sessions = @ + 1]
            ELSE [withTotal EXCEPT !.planned.hours = @ + hours,
                                   !.planned.sessions = @ + 1]

RECURSIVE StatsForEach(_, _)
StatsForEach(stats, ss) ==
    IF ss = << >> THEN stats ELSE StatsForEach(StatsTurn(stats, Head(ss)), Tail(ss))

\* useSessions weeklyStats (computed)
weeklyStats(ss, date, z) ==
    LET week == weekSessions(ss, date, z)
    IN  StatsForEach(StatsZero(Len(week)), week)

\* the instant new Date() returns: the page is opened on Monday 2025-03-10, noon UTC
PageLoad == DateParse("2025-03-10") + DayMs \div 2
NowDate == PageLoad + clockMs

\* what the add form and the plan import produce for the statistics
StatsTemplates ==
    {Template("cycling", "endurance", "Morning Ride", 60, "easy"),
     Template("cycling", "endurance", "Morning Ride", 120, "easy"),
     Template("running", "endurance", "Gym", 60, "easy")}
StatsDates == {"2025-03-09", "2025-03-10", "2025-03-16", "2025-03-17"}

\* WeekCalendar prevWeek / nextWeek / goToToday: move currentWeekStart and emit
\* weekChange, which App hands to setCurrentWeek
prevWeek ==
    /\ LocalDay(currentWeekDate, tz) >= 8
    /\ currentWeekDate' = currentWeekDate - 7 * DayMs
    /\ UNCHANGED <<storeVars, tokVars, tz, dbVars, calVars>>
nextWeek ==
    /\ LocalDay(currentWeekDate, tz) + 13 < Len(CalendarDays)
    /\ currentWeekDate' = currentWeekDate + 7 * DayMs
    /\ UNCHANGED <<storeVars, tokVars, tz, dbVars, calVars>>
goToToday ==
    /\ currentWeekDate' = getMonday(NowDate, tz)
    /\ UNCHANGED <<storeVars, tokVars, tz, dbVars, calVars>>

\* ------------------------------------------------------------ Google Calendar
MaxEvents == 4       \* events the calendar creates with an id of its own
Marker == "(phone) Cadence"           \* the last line of an event's description
ForeignText == "Cadence drills"       \* a description the user wrote by hand

\* session.id.replace(/-/g, '').toLowerCase(): the id the page asks for
EventId(id) == <<"hex", id>>
\* the id the calendar gives to an event that is inserted without one
GeneratedId(n) == <<"generated", n>>

\* the event syncToCalendar builds for a session; sid recalls the session
Event(session) ==
    [id |-> EventId(session.id),
     summary |-> <<session.sport, session.title>>,
     description |-> <<session.description, "Type: ", session.type, Marker>>,
     date |-> session.date,
     sid |-> session.id]
\* an event the user made in the calendar
ForeignEvent(n, text) ==
    [id |-> GeneratedId(n), summary |-> <<"user", text>>, description |-> <<text>>,
     date |-> "2025-03-10", sid |-> 0]

\* every found event counts as an event of the page
isCadenceEvent_any(event) == TRUE
\* event.description?.includes('(phone) Cadence')
isCadenceEvent(event) == \E i \in 1..Len(event.description) : event.description[i] = Marker

\* events?q=Cadence: the events with the word in one of their texts
SearchCadence(items) ==
    SelectSeq(items, LAMBDA e : \E i \in 1..Len(e.description) :
                                    e.description[i] \in {Marker, ForeignText})

EventIndex(items, id) == FindIndex(items, LAMBDA e : e.id = id)

\* the calendar answers: PUT events/{id} (404 when there is no such event),
\* POST events without an id (the calendar chooses one), DELETE events/{id}
CalendarPut(c, event) ==
    LET i == EventIndex(c.items, event.id)
    IN  IF i = 0 THEN [calendar |-> c, status |-> "404"]
        ELSE [calendar |-> [c EXCEPT !.items[i] = event], status |-> "200"]
CalendarPost(c, eventWithoutId) ==
    [calendar |-> [items |-> Append(c.items, [eventWithoutId EXCEPT
                                                 !.id = GeneratedId(c.generated + 1)]),
                   generated |-> c.generated + 1],
     status |-> "200"]
CalendarDelete(c, id) ==
    LET i == EventIndex(c.items, id)
    IN  IF i = 0 THEN [calendar |-> c, status |-> "410"]
        ELSE [calendar |-> [c EXCEPT !.items = Splice1(c.items, i)], status |-> "204"]

\* what becomes of a request: it is served by the calendar, refused with a
\* server error, or the fetch throws
Outcomes == {"served", "500", "throw"}

CalIdle == [kind |-> None, pc |-> "idle", waited |-> FALSE, granted |-> FALSE,
            requests |-> 0,
            queue |-> << >>, added |-> 0, updated |-> 0,
            found |-> << >>, attempted |-> << >>, answers |-> << >>, deleted |-> 0]
CalKinds == {"syncStrava", "syncToCalendar", "deleteAllEvents"}
ProviderOf(kind) == IF kind = "syncStrava" THEN "strava" ELSE "google"

\* fetchActivitiesWithDetails not running; fetched recalls, activity by activity,
\* whether its detail came
DetIdle == [pc |-> "idle", activities |-> << >>, queue |-> << >>,
            detailedActivities |-> << >>, fetched |-> << >>,
            refreshes |-> 0, requests |-> 0]
InitCal ==
    /\ det = DetIdle
    /\ calendar = [items |-> <<ForeignEvent(1, ForeignText), ForeignEvent(2, "Dentist")>>,
                   generated |-> 2]
    /\ cal = CalIdle

\* getValidToken up to its await: null, the stored access token, or the refresh
\* exchange that has to be waited for
getValidToken(pr) ==
    IF tokens[pr] = Null THEN [wait |-> FALSE, token |-> None]
    ELSE IF needsRefresh(tokens[pr][1], clockMs)
         THEN [wait |-> canExchange(pr, tokens[pr]), token |-> None]
         ELSE [wait |-> FALSE, token |-> tokens[pr][1].access_token]

\* an operation that goes on without a token
proceeds_always(accessToken) == TRUE
\* if (!accessToken) throw new Error('Non connecte ...')
proceeds(accessToken) == accessToken # None

\* the operation after `throw new Error('Non connecte ...')`: fetchActivities
\* returns [] and syncStrava finds no new activity; syncToCalendar returns
\* { added: 0, updated: 0 }; deleteAllEvents returns 0
Denied(kind, accessToken) ==
    /\ cal' = [CalIdle EXCEPT !.kind = kind, !.pc = "done", !.waited = cal.pc = "refreshing",
                              !.granted = accessToken # None]
    /\ error' = IF kind = "deleteAllEvents" THEN error
                ELSE [error EXCEPT ![ProviderOf(kind)] = notConnected(ProviderOf(kind))]
    /\ IF kind = "syncStrava"
       THEN sy' = [SyIdle EXCEPT !.pc = "done"] /\ gh' = [GhIdle EXCEPT !.pre = sessions]
       ELSE UNCHANGED <<sy, gh>>
    /\ UNCHANGED calendar

\* the loop of syncToCalendar at its next session: the PUT leaves, or the
\* function returns
PutNext(c, queue) ==
    IF queue = << >> THEN [c EXCEPT !.pc = "done", !.queue = << >>]
    ELSE [c EXCEPT !.pc = "put", !.queue = queue, !.requests = @ + 1]

\* the loop of deleteAllEvents at its next event: the events of another
\* description are passed over, the DELETE of the next one leaves
DeleteNext(c, events) ==
    LET mine == SelectSeq(events, isCadenceEvent)
    IN  IF mine = << >> THEN [c EXCEPT !.pc = "done", !.queue = << >>]
        ELSE [c EXCEPT !.pc = "delete", !.queue = mine, !.requests = @ + 1,
                       !.attempted = Append(@, Head(mine).id)]

\* the operation with an access token: its first request leaves
Granted(kind, accessToken) ==
    LET c == [CalIdle EXCEPT !.kind = kind, !.waited = cal.pc = "refreshing",
                             !.granted = accessToken # None]
    IN  /\ error' = IF kind = "deleteAllEvents" THEN error
                    ELSE [error EXCEPT ![ProviderOf(kind)] = None]
        /\ CASE kind = "syncStrava" ->
                    /\ cal' = [c EXCEPT !.pc = "done", !.requests = 1]
                    /\ sy' = [SyIdle EXCEPT !.pc = "fetch"]
                    /\ gh' = GhIdle
             [] kind = "syncToCalendar" ->
                    /\ cal' = PutNext(c, weekSessions(sessions, NowDate, tz))
                    /\ UNCHANGED <<sy, gh>>
             [] kind = "deleteAllEvents" ->
                    /\ cal' = [c EXCEPT !.pc = "search", !.requests = 1]
                    /\ UNCHANGED <<sy, gh>>
        /\ UNCHANGED calendar

Continue(kind, accessToken) ==
    IF proceeds(accessToken) THEN Granted(kind, accessToken) ELSE Denied(kind, accessToken)

CalRunning == cal.pc \notin {"idle", "done"}

\* syncStrava (fetchActivities), syncToCalendar or deleteAllEvents is called and
\* runs to its first await that waits for a server
callAdapter(kind) ==
    /\ ~CalRunning /\ ~Running
    /\ selectedSession = Null
    /\ LET t == getValidToken(ProviderOf(kind))
       IN  IF t.wait
           THEN /\ cal' = [CalIdle EXCEPT !.kind = kind, !.pc = "refreshing", !.waited = TRUE]
                /\ error' = IF kind = "deleteAllEvents" THEN error
                            ELSE [error EXCEPT ![ProviderOf(kind)] = None]
                /\ sy' = IF kind = "syncStrava" THEN [SyIdle EXCEPT !.pc = "auth"] ELSE sy
                /\ gh' = IF kind = "syncStrava" THEN GhIdle ELSE gh
                /\ UNCHANGED calendar
           ELSE Continue(kind, t.token)
    /\ UNCHANGED <<sessions, cache, nextId, selectedSession, tokens, storage, clockMs, op,
                   currentWeekDate, tz, dbVars, det>>

\* the refresh exchange of the waiting operation is answered
calRefreshed(ok, data) ==
    /\ cal.pc = "refreshing"
    /\ LET pr == ProviderOf(cal.kind)
           throws == pr = "google" /\ data.refresh_token = None /\ tokens[pr] = Null
           newTokens ==
               [access_token |-> data.access_token,
                refresh_token |-> IF pr = "strava" \/ data.refresh_token # None
                                  THEN data.refresh_token
                                  ELSE tokens[pr][1].refresh_token,
                expires_at |-> Now(clockMs) + data.expires]
       IN  IF ~ok \/ throws
           THEN clearTokens(pr) /\ Continue(cal.kind, None)
           ELSE saveTokens(pr, newTokens) /\ Continue(cal.kind, newTokens.access_token)
    /\ UNCHANGED <<sessions, cache, nextId, selectedSession, clockMs, op,
                   currentWeekDate, tz, dbVars, det>>

\* the PUT of the session at the head of the loop is answered: updated++, or on
\* 404 the POST of the event without its id leaves, or the loop goes on
calPutResponded(outcome) ==
    /\ cal.pc = "put"
    /\ LET res == IF outcome = "served" THEN CalendarPut(calendar, Event(Head(cal.queue)))
                  ELSE [calendar |-> calendar, status |-> outcome]
       IN  /\ calendar' = res.calendar
           /\ cal' = IF res.status = "200"
                         THEN PutNext([cal EXCEPT !.updated = @ + 1], Tail(cal.queue))
                     ELSE IF res.status = "404"
                         THEN [cal EXCEPT !.pc = "post", !.requests = @ + 1]
                     ELSE PutNext(cal, Tail(cal.queue))
    /\ UNCHANGED <<storeVars, tokVars, currentWeekDate, tz, dbVars, det>>

\* the POST is answered: added++ when it is ok, and the loop goes on
calPostResponded(outcome) ==
    /\ cal.pc = "post"
    /\ LET res == IF outcome = "served" THEN CalendarPost(calendar, Event(Head(cal.queue)))
                  ELSE [calendar |-> calendar, status |-> outcome]
       IN  /\ calendar' = res.calendar
           /\ cal' = IF res.status = "200"
                         THEN PutNext([cal EXCEPT !.added = @ + 1], Tail(cal.queue))
                     ELSE PutNext(cal, Tail(cal.queue))
    /\ UNCHANGED <<storeVars, tokVars, currentWeekDate, tz, dbVars, det>>

\* the search of deleteAllEvents is answered: !ok and a throw return 0,
\* otherwise the loop over data.items starts
calSearched(outcome) ==
    /\ cal.pc = "search"
    /\ cal' = IF outcome = "served"
              THEN DeleteNext([cal EXCEPT !.found = SearchCadence(calendar.items)],
                              SearchCadence(calendar.items))
              ELSE [cal EXCEPT !.pc = "done"]
    /\ UNCHANGED <<storeVars, tokVars, currentWeekDate, tz, dbVars, calendar, det>>

\* the DELETE of the event at the head of the loop is answered: deleted++ on
\* response.ok or 204, and the loop goes on
calDeleteResponded(outcome) ==
    /\ cal.pc = "delete"
    /\ LET res == IF outcome = "served" THEN CalendarDelete(calendar, Head(cal.queue).id)
                  ELSE [calendar |-> calendar, status |-> outcome]
           c == [cal EXCEPT !.answers = Append(@, res.status),
                            !.deleted = IF res.status \in {"200", "204"} THEN @ + 1 ELSE @]
       IN  /\ calendar' = res.calendar
           /\ cal' = DeleteNext(c, Tail(cal.queue))
    /\ UNCHANGED <<storeVars, tokVars, currentWeekDate, tz, dbVars, det>>

\* ------------------------------------------- fetchActivitiesWithDetails
\* what GET activities/{id} answers for an activity of the list: the same
\* activity with the fields of the detailed representation
Detail(activity) == [laps |-> <<"Lap 1">>, calories |-> 500] @@ activity

\* a loop that leaves out the activity whose detail is not there
fallback_drop(detailedActivities, activity) == detailedActivities
\* detailedActivities.push(activity as StravaDetailedActivity)
fallback(detailedActivities, activity) == Append(detailedActivities, activity)

\* the turns of the loop for activities whose fetchActivityDetail returns null
\* without a request (no token)
RECURSIVE FallbackAll(_, _)
FallbackAll(detailedActivities, queue) ==
    IF queue = << >> THEN detailedActivities
    ELSE FallbackAll(fallback(detailedActivities, Head(queue)), Tail(queue))

\* the loop at its next activity, t being what getValidToken gives: the
\* function returns, or the refresh or the GET of the detail is waited for;
\* without a token every activity left is pushed as it is
DetailNext(d, queue, t) ==
    IF queue = << >> THEN [d EXCEPT !.pc = "done", !.queue = << >>]
    ELSE IF t.wait THEN [d EXCEPT !.pc = "refreshing", !.queue = queue, !.refreshes = @ + 1]
    ELSE IF t.token = None
         THEN [d EXCEPT !.pc = "done", !.queue = << >>,
                        !.detailedActivities = FallbackAll(@, queue),
                        !.fetched = @ \o [i \in 1..Len(queue) |-> FALSE]]
    ELSE [d EXCEPT !.pc = "detail", !.queue = queue, !.requests = @ + 1]

DetRunning == det.pc \notin {"idle", "done"}

\* fetchActivitiesWithDetails(days, activitiesToFetch) is called with a list
\* and runs to its first await that waits for a server
fetchActivitiesWithDetails(activitiesToFetch) ==
    /\ ~DetRunning /\ ~CalRunning /\ ~Running
    /\ error' = [error EXCEPT !["strava"] = None]
    /\ det' = DetailNext([DetIdle EXCEPT !.activities = activitiesToFetch],
                         activitiesToFetch, getValidToken("strava"))
    /\ UNCHANGED <<storeVars, tokens, storage, clockMs, op, currentWeekDate, tz, dbVars,
                   calendar, cal>>

\* the refresh exchange asked for by fetchActivityDetail is answered: the GET
\* of the detail leaves, or the tokens are cleared and null is returned
detRefreshed(ok, data) ==
    /\ det.pc = "refreshing"
    /\ IF ok
       THEN /\ saveTokens("strava", [access_token |-> data.access_token,
                                     refresh_token |-> data.refresh_token,
                                     expires_at |-> Now(clockMs) + data.expires])
            /\ det' = [det EXCEPT !.pc = "detail", !.requests = @ + 1]
       ELSE /\ clearTokens("strava")
            /\ det' = DetailNext(det, det.queue, [wait |-> FALSE, token |-> None])
    /\ UNCHANGED <<storeVars, error, clockMs, op, currentWeekDate, tz, dbVars, calendar, cal>>

\* GET activities/{id} is answered: the detail is pushed when the response is
\* ok, the activity of the list when it is not or when the fetch throws
detResponded(outcome) ==
    /\ det.pc = "detail"
    /\ LET activity == Head(det.queue)
           detail == IF outcome = "served" THEN Some(Detail(activity)) ELSE Null
           d == [det EXCEPT !.fetched = Append(@, detail # Null),
                            !.detailedActivities =
                                IF detail # Null THEN Append(@, detail[1])
                                ELSE fallback(@, activity)]
       IN  det' = DetailNext(d, Tail(det.queue), getValidToken("strava"))
    /\ UNCHANGED <<storeVars, tokVars, currentWeekDate, tz, dbVars, calendar, cal>>

\* what the token endpoints answer to the page of the calendar
CalTokenData == [access_token : {"at1"}, refresh_token : RefreshTokens, expires : {60}]
CalDates == {"2025-03-10", "2025-03-17"}
\* what Strava answers to the page of the calendar: nothing, or one ride
CalBatches == {<< >>, <<Activity("Evening Ride", "Ride", "Ride", "2025-03-10", "18:00:00Z")>>}

\* ------------------------------------------------------------ remote store
\* useSupabase sessionToDb: the columns of the table; description || '',
\* coach_feedback ?? null; planned_title and planned_description are no columns
sessionToDb(session) ==
    [id |-> session.id, sport |-> session.sport, type |-> session.type,
     title |-> session.title, date |-> session.date,
     duration_min |-> session.duration_min,
     description |-> IF session.description = None THEN "" ELSE session.description,
     coach_feedback |-> IF "coach_feedback" \in DOMAIN session
                        THEN session.coach_feedback ELSE None]

\* useSupabase dbToSession: description || '', coach_feedback only when truthy
dbToSession(db) ==
    LET base == [id |-> db.id, date |-> db.date, sport |-> db.sport, type |-> db.type,
                 title |-> db.title, description |-> db.description,
                 duration_min |-> db.duration_min,
                 planned_title |-> None, planned_description |-> None]
    IN  IF db.coach_feedback \notin {None, ""}
        THEN [coach_feedback |-> db.coach_feedback] @@ base
        ELSE base

\* .order('date', { ascending: true }): the rows by date, rows of one date in
\* insertion order
RECURSIVE OrderByDate(_)
OrderByDate(rows) ==
    IF rows = << >> THEN << >>
    ELSE LET first == CHOOSE i \in 1..Len(rows) :
                          /\ \A j \in 1..Len(rows) : DayIndex(rows[i].date) <= DayIndex(rows[j].date)
                          /\ \A j \in 1..(i - 1) : rows[j].date # rows[i].date
         IN  <<rows[first]>> \o OrderByDate(Splice1(rows, first))

\* useSupabase fetchSessions: select('*').order('date'), then map(dbToSession)
fetchSessions(rows) ==
    LET data == OrderByDate(rows) IN [i \in 1..Len(data) |-> dbToSession(data[i])]

\* The requests of the store and what the table does with them --------------------
Req(verb, rows, id) == [verb |-> verb, rows |-> rows, id |-> id]
\* createSession: insert(sessionToDb(session)).select().single()
createSession(session) == Req("insert", <<sessionToDb(session)>>, session.id)
\* updateSession: update(sessionToDb(session)).eq('id', session.id).select().single()
updateSession(session) == Req("update", <<sessionToDb(session)>>, session.id)
\* deleteSession: delete().eq('id', id)
deleteSession(id) == Req("delete", << >>, id)
\* upsertSessions: the last session of each id, upsert(..., { onConflict: 'id' })
upsertSessions(ss) ==
    LET last == SelectSeq([i \in 1..Len(ss) |-> <<i, ss[i]>>],
                          LAMBDA p : \A j \in (p[1] + 1)..Len(ss) : ss[j].id # p[2].id)
    IN  Req("upsert", [i \in 1..Len(last) |-> sessionToDb(last[i][2])], 0)

RowIndex(rows, id) == FindIndex(rows, LAMBDA r : r.id = id)

RECURSIVE UpsertRows(_, _)
UpsertRows(rows, new) ==
    IF new = << >> THEN rows
    ELSE LET i == RowIndex(rows, Head(new).id)
         IN  UpsertRows(IF i = 0 THEN Append(rows, Head(new))
                        ELSE [rows EXCEPT ![i] = Head(new)], Tail(new))

\* the table after a request and whether the request is answered without error:
\* id is the primary key (an insert of a known id is refused); single() of an
\* update that matched no row is an error
TableApply(rows, req) ==
    LET i == RowIndex(rows, req.id)
    IN  CASE req.verb = "insert" ->
                IF i = 0 THEN [rows |-> Append(rows, req.rows[1]), ok |-> TRUE]
                ELSE [rows |-> rows, ok |-> FALSE]
          [] req.verb = "update" ->
                IF i = 0 THEN [rows |-> rows, ok |-> FALSE]
                ELSE [rows |-> [rows EXCEPT ![i] = req.rows[1]], ok |-> TRUE]
          [] req.verb = "delete" ->
                [rows |-> SelectSeq(rows, LAMBDA r : r.id # req.id), ok |-> TRUE]
          [] req.verb = "upsert" ->
                [rows |-> UpsertRows(rows, req.rows), ok |-> TRUE]

\* a store operation between its first await and its return: the requests it
\* still sends, one after the other, and the value it returns
Task(name, queue, ret) == [name |-> name, queue |-> queue, ret |-> ret]

SyncIdle == [pc |-> "idle", ok |-> FALSE, snapshot |-> << >>, err |-> Null,
             loaded |-> << >>, touched |-> {}]
DbhIdle == [anyFailed |-> FALSE, ops |-> 0, done |-> None]

InitDb ==
    /\ InitCal
    /\ remote = << >>
    /\ isLoading = FALSE
    /\ syncError = None
    /\ calls = << >>
    /\ sync = SyncIdle
    /\ dbh = DbhIdle

\* ------------------------------------------------------------ store and remote
MaxCalls == 1        \* store operations waiting for a remote call at one time
MaxOps == 3          \* store operations counted in one behaviour
Feedbacks == {"good"}
SyncTemplates == {Template("cycling", "endurance", "Morning Ride", 60, "easy")}
\* what fetchSessions throws: the error object of the client (no Error instance)
\* or the Error of getClient
FetchErrors == {[isError |-> FALSE, message |-> "PGRST"],
                [isError |-> TRUE, message |-> "Supabase URL and Anon Key must be set"]}

\* loadFromCache: JSON.parse of the cache when there is one, with the migration
\* of the sessions that carry actual data under another type than 'strava'
Migrate(s) ==
    IF s.type # "strava" /\ "actual_km" \in DOMAIN s THEN [s EXCEPT !.type = "strava"] ELSE s
loadFromCache(ss, c) == IF c = Null THEN ss ELSE [i \in 1..Len(c[1]) |-> Migrate(c[1][i])]

\* no message at all
errorMessage_null(e) == None
\* error instanceof Error ? error.message : 'Erreur de synchronisation'
errorMessage(e) == IF e.isError THEN e.message ELSE "Erreur de synchronisation"

\* a catch block that takes the optimistic update back
catchError_rollback(ss, task) ==
    SelectSeq(ss, LAMBDA s : \A k \in 1..Len(task.ret) : task.ret[k].id # s.id)
\* the catch blocks of the store operations: console.error, nothing else
catchError(ss, task) == ss

\* the ids an operation has touched while a fetch is in flight; the list that
\* init loaded is remembered as long as no operation has touched the store
Touch(ids) ==
    IF sync.pc = "idle" \/ ids = {} THEN sync
    ELSE [sync EXCEPT !.touched = @ \cup ids, !.loaded = << >>]

\* one more operation started (the count stops at MaxOps)
Counted == [dbh EXCEPT !.ops = IF @ < MaxOps THEN @ + 1 ELSE @]
Budget == dbh.ops < MaxOps

\* a store operation reaches its first await (or its end when it sends nothing)
Start(name, queue, ret, ids) ==
    /\ Len(calls) < MaxCalls
    /\ calls' = IF queue = << >> THEN calls ELSE Append(calls, Task(name, queue, ret))
    /\ sync' = Touch(ids)
    /\ dbh' = [Counted EXCEPT !.done = IF queue = << >> THEN name ELSE @]
    /\ UNCHANGED <<remote, isLoading, syncError>>

\* init: loadFromCache(), then syncFromSupabase() up to `await fetchSessions()`
init ==
    /\ sync.pc = "idle"
    /\ sessions' = loadFromCache(sessions, cache)
    /\ isLoading' = TRUE
    /\ syncError' = None
    /\ sync' = [SyncIdle EXCEPT !.pc = "sent", !.loaded = sessions']
    /\ dbh' = Counted
    /\ UNCHANGED <<cache, nextId, selectedSession, sy, gh, tokVars, currentWeekDate, tz, calVars,
                   remote, calls>>

\* the select reaches the table, or fails on its way
fetchServed(ok, err) ==
    /\ sync.pc = "sent"
    /\ sync' = IF ok THEN [sync EXCEPT !.pc = "served", !.ok = TRUE,
                                       !.snapshot = fetchSessions(remote)]
               ELSE [sync EXCEPT !.pc = "served", !.ok = FALSE, !.err = Some(err)]
    /\ dbh' = [dbh EXCEPT !.anyFailed = @ \/ ~ok]
    /\ UNCHANGED <<storeVars, tokVars, currentWeekDate, tz, calVars, remote, isLoading, syncError,
                   calls>>

\* syncFromSupabase after `await fetchSessions()`: try, catch and finally
syncResponded ==
    /\ sync.pc = "served"
    /\ IF sync.ok
       THEN /\ sessions' = sync.snapshot
            /\ cache' = Some(sync.snapshot)
            /\ UNCHANGED syncError
       ELSE /\ syncError' = errorMessage(sync.err[1])
            /\ UNCHANGED <<sessions, cache>>
    /\ isLoading' = FALSE
    /\ sync' = SyncIdle
    /\ dbh' = [dbh EXCEPT !.done = "init"]
    /\ UNCHANGED <<nextId, selectedSession, sy, gh, tokVars, currentWeekDate, tz, calVars,
                   remote, calls>>

\* addSession(template, date) up to `await dbCreateSession(newSession)`
addSession(template, date) ==
    /\ nextId < MaxId
    /\ LET newSession == NewSession(template, nextId + 1, date)
       IN  /\ sessions' = addSessionLocal(sessions, template, nextId + 1, date)
           /\ Start("addSession", <<createSession(newSession)>>, <<newSession>>,
                    {newSession.id})
    /\ cache' = saveToCache(sessions')
    /\ nextId' = nextId + 1
    /\ UNCHANGED <<selectedSession, sy, gh, tokVars, currentWeekDate, tz, calVars>>

\* addSessions(templates, date) of the store up to `await dbUpsertSessions(newSessions)`
addSessionsStore(templates, date) ==
    /\ nextId + Len(templates) <= MaxId
    /\ LET newSessions == [i \in 1..Len(templates) |->
                              NewSession(templates[i], nextId + i, date)]
       IN  /\ sessions' = sessions \o newSessions
           /\ Start("addSessions", <<upsertSessions(newSessions)>>, newSessions,
                    {newSessions[i].id : i \in 1..Len(newSessions)})
    /\ cache' = saveToCache(sessions')
    /\ nextId' = nextId + Len(templates)
    /\ UNCHANGED <<selectedSession, sy, gh, tokVars, currentWeekDate, tz, calVars>>

\* updateSessionDate(sessionId, newDate) up to `await dbUpdateSession(session)`
updateSessionDate(sessionId, newDate) ==
    LET i == FindIndex(sessions, LAMBDA s : s.id = sessionId)
    IN  /\ IF i = 0
           THEN \* if (session) fails: the function returns at once
                /\ UNCHANGED <<sessions, cache>>
                /\ Start("updateSessionDate", << >>, << >>, {})
           ELSE /\ sessions' = updateSessionDateLocal(sessions, sessionId, newDate)
                /\ cache' = saveToCache(sessions')
                /\ Start("updateSessionDate", <<updateSession(sessions'[i])>>, << >>,
                         {sessionId})
        /\ UNCHANGED <<nextId, selectedSession, sy, gh, tokVars, currentWeekDate, tz, calVars>>

\* updateSessionFeedback(sessionId, feedback) up to `await dbUpdateSession(session)`
updateSessionFeedback(sessionId, feedback) ==
    LET i == FindIndex(sessions, LAMBDA s : s.id = sessionId)
    IN  /\ i # 0
        /\ sessions' = [sessions EXCEPT ![i] = [coach_feedback |-> feedback] @@ @]
        /\ sessions' # sessions
        /\ cache' = saveToCache(sessions')
        /\ Start("updateSessionFeedback", <<updateSession(sessions'[i])>>, << >>,
                 {sessionId})
        /\ UNCHANGED <<nextId, selectedSession, sy, gh, tokVars, currentWeekDate, tz, calVars>>

\* removeSession(sessionId) up to `await dbDeleteSession(sessionId)`
removeSession(sessionId) ==
    /\ FindIndex(sessions, LAMBDA s : s.id = sessionId) # 0
    /\ sessions' = removeSessionLocal(sessions, sessionId)
    /\ cache' = saveToCache(sessions')
    /\ Start("removeSession", <<deleteSession(sessionId)>>, << >>, {sessionId})
    /\ UNCHANGED <<nextId, selectedSession, sy, gh, tokVars, currentWeekDate, tz, calVars>>

\* loadFromJson: sessionsToDelete, the ids the replaceExisting filter drops
sessionsToDelete(ss, newSessions) ==
    LET importDates == {newSessions[i].date : i \in 1..Len(newSessions)}
        dropped == SelectSeq(ss, LAMBDA x : x.date \in importDates /\ x.type # "strava")
    IN  [i \in 1..Len(dropped) |-> dropped[i].id]

\* loadFromJson: sessionsToAdd, the new sessions that were written or appended
RECURSIVE sessionsToAdd(_, _)
sessionsToAdd(ss, q) ==
    IF q = << >> THEN << >>
    ELSE LET key == Key(Head(q).title, Head(q).date)
             existingIndex == FindIndex(ss, LAMBDA x : Key(x.title, x.date) = key)
             pushed == existingIndex = 0 \/ overwritable(ss[existingIndex])
         IN  (IF pushed THEN <<Head(q)>> ELSE << >>)
                 \o sessionsToAdd(LoadTurn(ss, Head(q)), Tail(q))

\* loadFromJson(jsonData, replaceExisting) up to its first await: the deletes
\* are sent one after the other, then the upsert
loadFromJsonStore(jsonData, replaceExisting, today) ==
    LET fresh == Cardinality({j \in 1..Len(jsonData) : ~isFullSession(jsonData[j])})
        newSessions == newSessionsOf(jsonData, nextId, today)
        kept == IF replaceExisting THEN keptOnReplace(sessions, newSessions) ELSE sessions
        toDelete == IF replaceExisting THEN sessionsToDelete(sessions, newSessions)
                    ELSE << >>
        toAdd == sessionsToAdd(kept, newSessions)
    IN  /\ nextId + fresh <= MaxId
        /\ nextId' = nextId + fresh
        /\ sessions' = LoadForEach(kept, newSessions)
        /\ cache' = saveToCache(sessions')
        /\ Start("loadFromJson",
                 [i \in 1..Len(toDelete) |-> deleteSession(toDelete[i])]
                     \o (IF toAdd # << >> THEN <<upsertSessions(toAdd)>> ELSE << >>),
                 << >>,
                 Range(toDelete) \cup {toAdd[i].id : i \in 1..Len(toAdd)})
        /\ UNCHANGED <<selectedSession, sy, gh, tokVars, currentWeekDate, tz, calVars>>

\* reset up to its first await: the list and the cache are emptied, then every
\* session is deleted remotely
reset ==
    /\ sessions' = << >>
    /\ cache' = Null
    /\ Start("reset", [i \in 1..Len(sessions) |-> deleteSession(sessions[i].id)], << >>,
             {sessions[i].id : i \in 1..Len(sessions)})
    /\ UNCHANGED <<nextId, selectedSession, sy, gh, tokVars, currentWeekDate, tz, calVars>>

\* a loop that is left at the first request that fails
remaining_abort(task, ok) == IF ok THEN Tail(task.queue) ELSE << >>
\* the try/catch around each awaited call: the requests that follow it are sent
\* whether it failed or not
remaining(task, ok) == Tail(task.queue)

\* the next request of a waiting operation reaches the table (or is lost), the
\* operation goes on after its await: to its next request or to its return
served(i, lost) ==
    LET task == calls[i]
        res == IF lost THEN [rows |-> remote, ok |-> FALSE]
               ELSE TableApply(remote, Head(task.queue))
        rest == remaining(task, res.ok)
    IN  /\ remote' = res.rows
        /\ sessions' = IF res.ok THEN sessions ELSE catchError(sessions, task)
        /\ cache' = IF sessions' # sessions THEN saveToCache(sessions') ELSE cache
        /\ calls' = IF rest = << >> THEN Splice1(calls, i)
                    ELSE [calls EXCEPT ![i].queue = rest]
        /\ dbh' = [dbh EXCEPT !.anyFailed = @ \/ ~res.ok,
                              !.done = IF rest = << >> THEN task.name ELSE @]
        /\ UNCHANGED <<nextId, selectedSession, sy, gh, tokVars, currentWeekDate, tz, calVars,
                       isLoading, syncError, sync>>

\* the documents of the plan import: up to MaxItems hand-written objects
SyncDocuments == UNION {[1..n -> WrittenItems] : n \in 1..MaxItems}

\* the page as mounted in Paris: WeekCalendar onMounted has emitted weekChange
\* with getMonday(new Date())
Init ==
    /\ InitCore
    /\ InitDb
    /\ tz = 60
    /\ currentWeekDate = getMonday(PageLoad, tz)

\* the page as mounted in any of the time zones
InitStats ==
    /\ InitCore
    /\ InitDb
    /\ tz \in TzOffsets
    /\ currentWeekDate = getMonday(PageLoad, tz)

\* Spec: the imports run without a user operation between their ticks
Next ==
    \/ ~Running /\ \E t \in FormTemplates, d \in Dates : addSessions(<<t>>, d)
    \/ syncStrava
    \/ \E b \in Batches : syncFetched(b)
    \/ syncDetailed
    \/ syncRemoved
    \/ syncAdded

Spec == Init /\ [][Next]_vars

\* SpecApp: the same store under the syncStrava of src/src/App.vue
NextApp ==
    \/ ~Running /\ \E t \in FormTemplates, d \in Dates : addSessions(<<t>>, d)
    \/ ~Running /\ \E i \in 1..Len(sessions), d \in Dates : handleUpdateDate(i, d)
    \/ syncStravaApp
    \/ \E b \in Batches : syncAppFetched(b)

SpecApp == Init /\ [][NextApp]_vars

\* SpecJson: the store under the add form, the import of activities and the
\* import of JSON documents
NextJson ==
    \/ ~Running /\ nextId < MaxIdSmall
          /\ \E t \in JsonTemplates, d \in Dates : addSessions(<<t>>, d)
    \/ nextId < MaxIdSmall /\ syncStrava
    \/ \E b \in BatchesUpTo(MaxBatchSmall) : syncFetched(b)
    \/ syncDetailed
    \/ syncRemoved
    \/ syncAdded
    \/ ~Running /\ \E doc \in JsonDocuments(sessions), r \in BOOLEAN :
           \E today \in (IF \E i \in 1..Len(doc) : doc[i].date = None
                          THEN Dates ELSE {"2025-03-10"}) :
               loadFromJson(doc, r, today)

SpecJson == Init /\ [][NextJson]_vars

\* SpecToken: the two adapters, their token endpoints and the clock
NextToken ==
    \/ \E pr \in Providers, ok \in BOOLEAN, data \in TokenData : handleCallback(pr, ok, data)
    \/ \E pr \in Providers : \E kind \in OpKinds(pr) : startOp(pr, kind)
    \/ \E ok \in BOOLEAN, data \in TokenData : refreshResponded(ok, data)
    \/ \E status \in Statuses : providerResponded(status)
    \/ \E pr \in Providers : disconnect(pr)
    \/ \E step \in ClockSteps : tick(step)

SpecToken == Init /\ [][NextToken]_vars

\* SpecUI: the calendar, the detail modal and the import; the ticks of a running
\* import interleave with the user's operations
NextUI ==
    \/ nextId < MaxIdSmall /\ \E t \in FormTemplates, d \in Dates : addSessions(<<t>>, d)
    \/ \E i \in 1..Len(sessions), d \in Dates : handleUpdateDate(i, d)
    \/ \E i \in 1..Len(sessions) : handleSelectSession(i)
    \/ closeModal
    \/ handleDelete
    \/ nextId < MaxIdSmall /\ syncStrava
    \/ \E b \in BatchesUpTo(MaxBatchSmall) : syncFetched(b)
    \/ syncDetailed
    \/ syncRemoved
    \/ syncAdded

SpecUI == Init /\ [][NextUI]_vars

\* SpecStats: the store under the add form and the import, the week navigation of
\* the calendar, in each time zone
NextStats ==
    \/ ~Running /\ nextId < MaxIdSmall
          /\ \E t \in StatsTemplates, d \in StatsDates : addSessions(<<t>>, d)
    \/ nextId < MaxIdSmall /\ syncStrava
    \/ \E b \in BatchesUpTo(MaxBatchSmall) : syncFetched(b)
    \/ syncDetailed
    \/ syncRemoved
    \/ syncAdded
    \/ prevWeek
    \/ nextWeek
    \/ goToToday

SpecStats == InitStats /\ [][NextStats]_vars

\* SpecSync: init and the five mutations of the store with their remote calls
NextSync ==
    \/ Budget /\ init
    \/ \E ok \in BOOLEAN, err \in FetchErrors : fetchServed(ok, err)
    \/ syncResponded
    \/ Budget /\ nextId < MaxIdSmall /\ \E t \in SyncTemplates, d \in Dates : addSession(t, d)
    \/ Budget /\ nextId < MaxIdSmall
          /\ \E ts \in UNION {[1..n -> SyncTemplates] : n \in 1..MaxBatchSmall}, d \in Dates :
                addSessionsStore(ts, d)
    \/ Budget /\ \E id \in 1..MaxIdSmall, d \in Dates : updateSessionDate(id, d)
    \/ Budget /\ \E id \in 1..nextId, fb \in Feedbacks : updateSessionFeedback(id, fb)
    \/ Budget /\ \E id \in 1..nextId : removeSession(id)
    \/ Budget /\ reset
    \/ \E i \in 1..Len(calls), lost \in BOOLEAN : served(i, lost)

SpecSync == Init /\ [][NextSync]_vars

\* SpecStore: every store operation, each started when the one before has
\* returned; no request is lost on its way
Quiet == calls = << >> /\ sync.pc = "idle"
NextStore ==
    \/ Quiet /\ init
    \/ fetchServed(TRUE, CHOOSE err \in FetchErrors : TRUE)
    \/ syncResponded
    \/ Quiet /\ nextId < MaxIdSmall /\ \E t \in SyncTemplates, d \in Dates : addSession(t, d)
    \/ Quiet /\ nextId < MaxIdSmall
          /\ \E ts \in UNION {[1..n -> SyncTemplates] : n \in 1..MaxBatchSmall}, d \in Dates :
                addSessionsStore(ts, d)
    \/ Quiet /\ \E id \in 1..nextId, d \in Dates : updateSessionDate(id, d)
    \/ Quiet /\ \E id \in 1..nextId, fb \in Feedbacks : updateSessionFeedback(id, fb)
    \/ Quiet /\ \E id \in 1..nextId : removeSession(id)
    \/ Quiet /\ nextId < MaxIdSmall
          /\ \E doc \in SyncDocuments, r \in BOOLEAN :
                \E today \in (IF \E i \in 1..Len(doc) : doc[i].date = None
                               THEN Dates ELSE {"2025-03-10"}) :
                    loadFromJsonStore(doc, r, today)
    \/ Quiet /\ reset
    \/ \E i \in 1..Len(calls) : served(i, FALSE)

SpecStore == Init /\ [][NextStore]_vars

\* SpecCal: the page with its two adapters: the add form, the import of
\* activities, the Google Calendar operations, the connections and the clock
NextCal ==
    \/ ~Running /\ ~CalRunning /\ nextId < MaxIdSmall
          /\ \E t \in SyncTemplates, d \in CalDates : addSessions(<<t>>, d)
    \/ \E kind \in CalKinds :
          /\ kind = "syncToCalendar" => calendar.generated + Len(sessions) <= MaxEvents
          /\ callAdapter(kind)
    \/ \E ok \in BOOLEAN, data \in CalTokenData : calRefreshed(ok, data)
    \/ \E outcome \in Outcomes : calPutResponded(outcome)
    \/ \E outcome \in Outcomes : calPostResponded(outcome)
    \/ \E outcome \in Outcomes : calSearched(outcome)
    \/ \E outcome \in Outcomes : calDeleteResponded(outcome)
    \/ \E b \in CalBatches : syncFetched(b)
    \/ syncDetailed
    \/ syncRemoved
    \/ syncAdded
    \/ ~CalRunning /\ ~Running
          /\ \E pr \in Providers, data \in CalTokenData :
                tokens[pr] = Null /\ handleCallback(pr, TRUE, data)
    \/ ~CalRunning /\ ~Running /\ tick(1000)

SpecCal == Init /\ [][NextCal]_vars

\* ---------------------------- the detail loop, with the token moving under it
NextDetails ==
    \/ \E activitiesToFetch \in Batches : fetchActivitiesWithDetails(activitiesToFetch)
    \/ \E ok \in BOOLEAN, data \in CalTokenData : detRefreshed(ok, data)
    \/ \E outcome \in Outcomes : detResponded(outcome)
    \/ \E data \in CalTokenData : tokens["strava"] = Null /\ handleCallback("strava", TRUE, data)
    \/ disconnect("strava")
    \/ tick(1000)
SpecDetails == Init /\ [][NextDetails]_vars

\* SpecRace: two operations of the Strava adapter at one time, an operation of
\* the page and the detail loop, on a token that comes to its expiry
NextRace ==
    \/ \E data \in CalTokenData : tokens["strava"] = Null /\ handleCallback("strava", TRUE, data)
    \/ tick(1000)
    \/ \E kind \in OpKinds("strava") : startOp("strava", kind)
    \/ \E ok \in BOOLEAN, data \in CalTokenData : refreshResponded(ok, data)
    \/ \E status \in Statuses : providerResponded(status)
    \/ \E activitiesToFetch \in BatchesUpTo(MaxBatchSmall) :
          fetchActivitiesWithDetails(activitiesToFetch)
    \/ \E ok \in BOOLEAN, data \in CalTokenData : detRefreshed(ok, data)
    \/ \E outcome \in Outcomes : detResponded(outcome)
SpecRace == Init /\ [][NextRace]_vars

\* ======================================================== properties: import
Planned(s) == s.type # "strava"
\* the indices of the sessions of ss on date d with sport sp
On(ss, d, sp) == {i \in 1..Len(ss) : ss[i].date = d /\ ss[i].sport = sp}
\* the candidates of the finished import: the converted new activities
Conv == convertToSessions(newActivities(gh.batch, gh.pre))
ConvOn(d, sp) == {i \in 1..Len(Conv) : Conv[i].date = d /\ Conv[i].session.sport = sp}
\* all the converted activities of the fetched batch
Cand == convertToSessions(gh.batch)
CandOn(d, sp) == {i \in 1..Len(Cand) : Cand[i].date = d /\ Cand[i].session.sport = sp}
ImportDone == sy.pc = "done" /\ gh.clean

\* What C1 promises for the planned session P = gh.pre[p] and the candidate Conv[c]
Displaced(p, c) ==
    LET P == gh.pre[p]
        here == On(sessions, P.date, P.sport)
    IN  /\ Cardinality(here) = 1
        /\ \A i \in here :
              /\ sessions[i].type = "strava"
              /\ sessions[i].title = Conv[c].session.title
              /\ sessions[i].planned_title = P.title
              /\ sessions[i].planned_description = P.description
        /\ \A i \in 1..Len(sessions) : sessions[i].id # P.id

\* C1 as claimed: after an import, for ANY planned session P of the store the
\* import started from and any new activity of P's date and sport, exactly one
\* session is left on that date and sport, the actual one, with P's title and
\* description as its planned_title / planned_description, and P's id is gone.
C1_AsClaimed ==
    ImportDone =>
        \A p \in 1..Len(gh.pre) : \A c \in 1..Len(Conv) :
            (Planned(gh.pre[p]) /\ Conv[c].date = gh.pre[p].date
                /\ Conv[c].session.sport = gh.pre[p].sport)
            => Displaced(p, c)

\* C1 as amended: the same, when P is the only session of its date and sport
\* in the store the import started from, and the batch holds exactly one new
\* activity of that date and sport.
C1_SoleDisplaced ==
    ImportDone =>
        \A p \in 1..Len(gh.pre) : \A c \in 1..Len(Conv) :
            (Planned(gh.pre[p]) /\ Conv[c].date = gh.pre[p].date
                /\ Conv[c].session.sport = gh.pre[p].sport
                /\ On(gh.pre, gh.pre[p].date, gh.pre[p].sport) = {p}
                /\ ConvOn(gh.pre[p].date, gh.pre[p].sport) = {c})
            => Displaced(p, c)

\* C1 witness: an import has displaced the only planned session of a date and
\* sport, among other sessions of the store
C1_Witness ==
    /\ ImportDone
    /\ Len(gh.pre) >= 2
    /\ \E p \in 1..Len(gh.pre) : \E c \in 1..Len(Conv) :
          /\ Planned(gh.pre[p]) /\ Conv[c].date = gh.pre[p].date
          /\ Conv[c].session.sport = gh.pre[p].sport
          /\ On(gh.pre, gh.pre[p].date, gh.pre[p].sport) = {p}
          /\ ConvOn(gh.pre[p].date, gh.pre[p].sport) = {c}
          /\ Displaced(p, c)

AllKnown == \A i \in 1..Len(gh.batch) :
               Key(gh.batch[i].name, DayOf(gh.batch[i].start_date_local))
                   \in existingKeys(gh.pre)

\* C2: an import whose fetched activities all have a 'strava' session of the
\* same (title, date) key leaves the session list as it was: nothing added,
\* no new identifier, no planned session removed.
C2_ReimportUnchanged ==
    (ImportDone /\ AllKnown) =>
        /\ sessions = gh.pre
        /\ sy.added = 0 /\ sy.replacedPlanned = 0 /\ sy.removedPlanned = 0

\* C3: no two 'strava' sessions of the store share a (title, date) key
C3_NoDuplicateKey ==
    \A i, j \in 1..Len(sessions) :
        (i # j /\ sessions[i].type = "strava" /\ sessions[j].type = "strava")
        => Key(sessions[i].title, sessions[i].date) # Key(sessions[j].title, sessions[j].date)

\* C4: a planned session of the store the import started from survives the import
\* with its id and fields when no activity of the batch has its date and sport
\* (the activities of its date are all of another sport)
C4_OtherSportUntouched ==
    ImportDone =>
        \A p \in 1..Len(gh.pre) :
            (Planned(gh.pre[p]) /\ CandOn(gh.pre[p].date, gh.pre[p].sport) = {})
            => \E i \in 1..Len(sessions) : sessions[i] = gh.pre[p]

\* =================================================== properties: JSON import
Loaded == gh.loaded
\* the dates of the imported document
ImportDates == {gh.items[i].date : i \in 1..Len(gh.items)}
HasId(ss, id) == \E i \in 1..Len(ss) : ss[i].id = id
Has(ss, x) == \E i \in 1..Len(ss) : ss[i] = x
StravaKept ==
    \A p \in 1..Len(gh.pre) :
        (gh.pre[p].type = "strava" /\ gh.pre[p].date \in ImportDates)
        => Has(sessions, gh.pre[p])

\* C5 as claimed: after loadFromJson(items, true) every session of another type
\* than 'strava' that was on a date of the document is gone before the first
\* insertion and is absent from the store afterwards, and every 'strava' session
\* of those dates is still there with its id and fields
C5_AsClaimed ==
    (Loaded /\ gh.replace) =>
        /\ \A p \in 1..Len(gh.pre) :
              (gh.pre[p].type # "strava" /\ gh.pre[p].date \in ImportDates)
              => ~HasId(gh.kept, gh.pre[p].id) /\ ~HasId(sessions, gh.pre[p].id)
        /\ StravaKept

\* C5 as amended: such a session is gone before the first insertion, and a
\* session found at its id afterwards is an object of the document that carries
\* this id; the 'strava' sessions of those dates are kept
C5_ReplacedBeforeInsert ==
    (Loaded /\ gh.replace) =>
        /\ \A p \in 1..Len(gh.pre) :
              (gh.pre[p].type # "strava" /\ gh.pre[p].date \in ImportDates)
              => /\ ~HasId(gh.kept, gh.pre[p].id)
                 /\ \A i \in 1..Len(sessions) :
                        sessions[i].id = gh.pre[p].id => Has(gh.items, sessions[i])
        /\ StravaKept

\* C5 witness: a replacing import has removed a planned session of one of its
\* dates next to a 'strava' session of the same date
C5_Witness ==
    /\ Loaded /\ gh.replace
    /\ \E p, q \in 1..Len(gh.pre) :
          /\ gh.pre[p].type # "strava" /\ gh.pre[p].date \in ImportDates
          /\ ~HasId(sessions, gh.pre[p].id)
          /\ gh.pre[q].type = "strava" /\ gh.pre[q].date = gh.pre[p].date

\* C6: loadFromJson with either flag keeps every 'strava' session at its id
\* with its fields, whatever the keys of the document
C6_StravaNeverOverwritten ==
    Loaded => \A p \in 1..Len(gh.pre) :
                 gh.pre[p].type = "strava" => Has(sessions, gh.pre[p])

\* C6 witness: the document held an object with the key of a 'strava' session
C6_Witness ==
    /\ Loaded
    /\ \E p \in 1..Len(gh.pre) : \E i \in 1..Len(gh.items) :
          /\ gh.pre[p].type = "strava"
          /\ Key(gh.items[i].title, gh.items[i].date) = Key(gh.pre[p].title, gh.pre[p].date)
          /\ gh.items[i] # gh.pre[p]

\* the planned sessions of ss that read (title, date, duration_min) = t
PlannedAs(ss, t) ==
    {i \in 1..Len(ss) : ss[i].type # "strava"
                         /\ <<ss[i].title, ss[i].date, ss[i].duration_min>> = t}
Triples(ss) == {<<ss[i].title, ss[i].date, ss[i].duration_min>> : i \in 1..Len(ss)}
IsRoundTrip == Loaded /\ ~gh.replace /\ gh.items = ParseAll(exportToJson(gh.pre))

\* C7: exportToJson then loadFromJson(export, false) leaves the planned
\* sessions, counted by (title, date, duration_min), and the 'strava' sessions
\* as they were
C7_RoundTrip ==
    IsRoundTrip =>
        /\ \A t \in Triples(gh.pre) \cup Triples(sessions) :
              Cardinality(PlannedAs(sessions, t)) = Cardinality(PlannedAs(gh.pre, t))
        /\ SelectSeq(sessions, LAMBDA x : x.type = "strava")
             = SelectSeq(gh.pre, LAMBDA x : x.type = "strava")

\* =================================================== properties: delete path
\* C8: a step of the modal's delete path (the modal was open and is closed by
\* the step) removes no session of type 'strava' from the store
C8_DeleteKeepsStrava ==
    [][(selectedSession # Null /\ selectedSession' = Null) =>
          \A i \in 1..Len(sessions) :
              sessions[i].type = "strava" => Has(sessions', sessions[i])]_vars

\* C8 witness: the modal is open on a 'strava' session of the store, next to a
\* planned one
C8_Witness ==
    /\ selectedSession # Null
    /\ selectedSession[1].type = "strava"
    /\ HasId(sessions, selectedSession[1].id)
    /\ \E i \in 1..Len(sessions) : sessions[i].type # "strava"

\* ================================================ properties: token lifecycle
\* an operation was called with tokens stored
Started == op.pc # "idle" /\ op.startTokens # Null
\* getValidToken handed the stored access token over without an exchange
ReturnedStored ==
    /\ op.requests = 1 /\ op.exchanges = 0
    /\ op.bearer = op.startTokens[1].access_token
\* less than 60 s are left, counted from the second the call fell in
Near == op.startTokens[1].expires_at < (op.startMs \div 1000) + BUFFER
\* the token expires more than 60 s after the call, to the millisecond
MoreThanBuffer == op.startTokens[1].expires_at * 1000 > op.startMs + BUFFER * 1000
\* at least 60 s are left, counted from the second the call fell in
Fresh == op.startTokens[1].expires_at >= (op.startMs \div 1000) + BUFFER

\* C9: an operation called with a token that expires in less than 60 s does
\* exactly one refresh exchange, before its provider request; when the refresh
\* fails no provider request is sent, the operation ends with the not-connected
\* error, and the tokens are cleared in memory and in localStorage
C9_RefreshOnceOrFail ==
    (Started /\ Near) =>
        /\ op.exchanges = 1
        /\ op.refreshFailed =>
              /\ op.requests = 0
              /\ op.outcome = "authError"
              /\ tokens[op.pr] = Null /\ storage[op.pr] = Null

\* C10 as claimed: getValidToken hands the stored token over without an
\* exchange exactly when expires_at is more than 60 s after the current time,
\* and does a refresh exchange in every other case
C10_AsClaimed ==
    Started =>
        /\ ReturnedStored <=> MoreThanBuffer
        /\ ~MoreThanBuffer => op.exchanges = 1

\* C10 as amended: the stored token is handed over without an exchange exactly
\* when expires_at >= floor(now) + 60; in every other case refreshAccessToken
\* is called, and it does an exchange exactly when its guard lets it (Google:
\* a refresh_token is stored)
C10_BufferBoundary ==
    Started =>
        /\ ReturnedStored <=> Fresh
        /\ ~Fresh => /\ op.refreshCalled
                     /\ op.exchanges = 1 <=> canExchange(op.pr, op.startTokens)

\* C10 witness: a call made with exactly 60 s left got the stored token, after
\* the clock had moved
C10_Witness ==
    /\ Started /\ ReturnedStored /\ op.startMs > 0
    /\ op.startTokens[1].expires_at = (op.startMs \div 1000) + BUFFER

\* ======================================================== properties: statistics
RECURSIVE SumDuration(_)
SumDuration(ss) == IF ss = << >> THEN 0 ELSE Head(ss).duration_min + SumDuration(Tail(ss))
\* the sessions whose date is one of the seven dates the calendar displays
InDisplayedWeek(ss) ==
    SelectSeq(ss, LAMBDA s : s.date \in Range(weekDays(currentWeekDate, tz)))
StatsSports == {"cycling", "running", "strength"}
StatsAsDefined(st, week) ==
    /\ \A sp \in StatsSports :
          /\ st[sp].accomplished =
                SumDuration(SelectSeq(week, LAMBDA s : s.sport = sp /\ s.type = "strava"))
          /\ st[sp].planned =
                SumDuration(SelectSeq(week, LAMBDA s : s.sport = sp /\ s.type # "strava"))
    /\ st.total.hours = SumDuration(week)
    /\ st.total.sessions = Len(week)

\* C11: weeklyStats is computed over the sessions whose date lies in the displayed
\* week: per sport, accomplished is the summed hours of the 'strava' sessions and
\* planned the summed hours of the others; total.hours sums every session of the
\* week and total.sessions counts them.
C11_StatsOfDisplayedWeek ==
    StatsAsDefined(weeklyStats(sessions, currentWeekDate, tz), InDisplayedWeek(sessions))

\* the same east of Greenwich or on it
C11_EastOfGreenwich == tz >= 0 => C11_StatsOfDisplayedWeek
C11_Witness ==
    /\ tz >= 0
    /\ \E i, j \in 1..Len(InDisplayedWeek(sessions)) :
          /\ InDisplayedWeek(sessions)[i].type = "strava"
          /\ InDisplayedWeek(sessions)[j].type # "strava"

\* ======================================================== properties: remote store
\* the step on which syncFromSupabase goes on after its await and returns
SyncCompletes == sync.pc = "served" /\ sync'.pc = "idle"
Lookup(ss, id) ==
    LET i == FindIndex(ss, LAMBDA s : s.id = id) IN IF i = 0 THEN Null ELSE Some(ss[i])
Cached == IF cache = Null THEN << >> ELSE cache[1]

\* C12: when init() completes after a successful fetchSessions, the list in
\* memory and the cache both equal the fetched remote list and syncError is null;
\* after a failed one the list is still the list loaded from the cache, the
\* cache is unchanged and syncError is set; isLoading is false in both cases.
C12_InitOutcome ==
    [][SyncCompletes =>
          /\ isLoading' = FALSE
          /\ IF sync.ok
             THEN /\ sessions' = sync.snapshot
                  /\ cache' = Some(sync.snapshot)
                  /\ syncError' = None
             ELSE /\ sessions' = sessions
                  /\ cache' = cache
                  /\ sync.touched = {} => sessions' = sync.loaded
                  /\ syncError' # None]_vars
C12_Witness ==
    /\ dbh.done = "init"
    /\ sync.pc = "idle"
    /\ syncError # None
    /\ ~isLoading
    /\ sessions # << >>
    /\ remote # << >>

\* C13: a mutation of the store made while the fetch of syncFromSupabase is in
\* flight is still in the list and in the cache when the fetch has completed: the
\* session of every id touched meanwhile is after the completion what it was
\* before it.
C13_MutationSurvivesFetch ==
    [][(SyncCompletes /\ sync.ok /\ ~dbh.anyFailed) =>
          \A id \in sync.touched :
              /\ Lookup(sessions', id) = Lookup(sessions, id)
              /\ cache' # Null /\ Lookup(cache'[1], id) = Lookup(Cached, id)]_vars

\* the steps of addSession: its start and its return
AddSessionStarts == calls' # calls /\ Len(calls') = Len(calls) + 1
                        /\ calls'[Len(calls')].name = "addSession"
AddSessionReturns(i) == calls[i].name = "addSession" /\ calls' = Splice1(calls, i)

\* C14: addSession puts the new session in the list and in the cache before the
\* remote create is attempted, and the session stays in both and is the value
\* returned whether the create succeeds or fails.
C14_OptimisticAdd ==
    [][/\ AddSessionStarts =>
            LET task == calls'[Len(calls')]
                newSession == task.ret[1]
            IN  /\ sessions' = Append(sessions, newSession)
                /\ cache' = Some(sessions')
                /\ task.queue = <<createSession(newSession)>>
                /\ RowIndex(remote', newSession.id) = 0
       /\ \A i \in 1..Len(calls) : AddSessionReturns(i) =>
            /\ Len(calls[i].ret) = 1
            /\ Lookup(sessions', calls[i].ret[1].id) = Lookup(sessions, calls[i].ret[1].id)
            /\ Lookup(IF cache' = Null THEN << >> ELSE cache'[1], calls[i].ret[1].id)
                   = Lookup(Cached, calls[i].ret[1].id)]_vars
C14_Witness ==
    /\ dbh.done = "addSession"
    /\ dbh.ops = 1
    /\ dbh.anyFailed
    /\ remote = << >>
    /\ Len(sessions) = 1
    /\ cache = Some(sessions)

IdsOf(ss) == {ss[i].id : i \in 1..Len(ss)}

\* C15: if every remote call has succeeded, then once every store operation that
\* was started has returned, the remote table holds the sessions of the list in
\* memory, so that a following init() leaves the list as it is.
C15_RemoteEqualsLocal ==
    (Quiet /\ ~dbh.anyFailed) => IdsOf(fetchSessions(remote)) = IdsOf(sessions)

\* ======================================================== properties: adapters
EventsOf(sid) == {i \in 1..Len(calendar.items) : calendar.items[i].sid = sid}

\* C16: syncToCalendar run again and again on an unchanged list leaves at most
\* one event in the calendar for a session: the first run creates it, the later
\* runs update it.
C16_OneEventPerSession ==
    \A i \in 1..Len(sessions) : Cardinality(EventsOf(sessions[i].id)) <= 1

\* the steps of an adapter call that has no access token (yet)
WithoutToken ==
    /\ cal' # cal
    /\ cal.pc \in {"idle", "done", "refreshing"}
    /\ cal'.pc # "idle"
    /\ ~cal'.granted

\* C17: when no token is stored or no valid token can be obtained, syncStrava,
\* syncToCalendar and deleteAllEvents do no partial work: no request goes to the
\* provider, no session is added, removed or modified, no event is touched and
\* the counts returned are zero.
C17_NoTokenNoWork ==
    [][WithoutToken =>
          /\ cal'.pc \in {"refreshing", "done"}
          /\ cal'.requests = 0
          /\ cal'.added = 0 /\ cal'.updated = 0 /\ cal'.deleted = 0
          /\ sessions' = sessions /\ cache' = cache
          /\ calendar' = calendar
          /\ (cal'.kind = "syncStrava" /\ cal'.pc = "done") =>
                sy'.pc = "done" /\ sy'.added = 0 /\ sy'.replacedPlanned = 0]_vars
C17_Witness ==
    /\ cal.pc = "done"
    /\ ~cal.granted
    /\ cal.kind = "syncToCalendar"
    /\ cal.waited
    /\ tokens["google"] = Null
    /\ weekSessions(sessions, NowDate, tz) # << >>

HasMarker(event) == Marker \in Range(event.description)
Successes(answers) == Cardinality({i \in 1..Len(answers) : answers[i] \in {"200", "204"}})

\* C18: deleteAllEvents attempts a delete for every found event whose description
\* holds the marker and for no other event; a delete that fails or throws does
\* not stop the others; the count returned is the number of deletes that
\* succeeded.
C18_DeletesMarkedOnly ==
    (cal.kind = "deleteAllEvents" /\ cal.pc = "done") =>
        LET marked == SelectSeq(cal.found, HasMarker)
        IN  /\ cal.attempted = [i \in 1..Len(marked) |-> marked[i].id]
            /\ Len(cal.answers) = Len(cal.attempted)
            /\ cal.deleted = Successes(cal.answers)
C18_Witness ==
    /\ cal.kind = "deleteAllEvents" /\ cal.pc = "done"
    /\ Len(cal.attempted) >= 2
    /\ Len(cal.found) > Len(cal.attempted)
    /\ cal.answers[1] \notin {"200", "204"}
    /\ cal.deleted >= 1

\* ------------------------------------------------ properties of the detail loop
\* the activities the loop has not come to yet
DetailsLeft == SubSeq(det.activities, Len(det.detailedActivities) + 1, Len(det.activities))

\* C19: fetchActivitiesWithDetails(days, activities) returns a list of the
\* length and order of the activities given, element i being the detailed
\* record when the detail fetch of activity i succeeded and activity i itself
\* when it failed; a failed fetch drops no activity and the loop goes on with
\* the activities after it.
C19_DetailOrFallback ==
    /\ det.pc # "idle" =>
          /\ Len(det.fetched) = Len(det.detailedActivities)
          /\ det.pc # "done" => det.queue = DetailsLeft /\ det.queue # << >>
          /\ \A i \in 1..Len(det.fetched) :
                det.detailedActivities[i] = IF det.fetched[i] THEN Detail(det.activities[i])
                                            ELSE det.activities[i]
    /\ det.pc = "done" => Len(det.detailedActivities) = Len(det.activities)
C19_Witness ==
    /\ det.pc = "done"
    /\ Len(det.activities) >= 2
    /\ ~det.fetched[1]
    /\ det.fetched[2]
    /\ det.activities[1] # det.activities[2]


\* ------------------------------------------------ properties of the conversion
\* the reported type of an activity is in one of the three closed lists
Recognised(a) ==
    LET reported == IF a.sport_type = "" THEN a.type ELSE a.sport_type
    IN  reported \in cyclingTypes \cup runningTypes \cup strengthTypes

\* the step of syncStrava that converts the detailed activities
Converts == sy.pc = "details" /\ sy'.pc # "details"

\* C20: convertToSessions gives, in the order of its input, one candidate (type
\* 'strava', date the day part of start_date_local, title the name) for each
\* activity whose sport_type (type when sport_type is empty) is in one of the
\* three lists and nothing for another activity, so syncStrava never inserts an
\* activity of an unrecognised type.
C20_OneCandidatePerRecognised ==
    [][Converts =>
          LET out == IF sy'.pc = "done" THEN << >> ELSE sy'.queue
              rec == SelectSeq(sy.newActs, Recognised)
          IN  /\ Len(out) = Len(rec)
              /\ \A i \in 1..Len(out) :
                    /\ out[i].session.type = "strava"
                    /\ out[i].session.title = rec[i].name
                    /\ out[i].date = rec[i].start_date_local[1]
                    /\ out[i].session.sport \in {"cycling", "running", "strength"}
              /\ Len(sessions') - Len(sessions) \in {IF rec = << >> THEN 0 ELSE 1, -1}
              /\ rec = << >> => sessions' = sessions]_vars
C20_Witness ==
    /\ sy.pc = "created"
    /\ gh.clean /\ gh.pre = << >>
    /\ Len(gh.batch) = 2
    /\ ~Recognised(gh.batch[1])
    /\ Recognised(gh.batch[2]) /\ gh.batch[2].sport_type = ""
    /\ Len(sy.queue) = 1
    /\ Len(sessions) = 1 /\ sessions[1].title = gh.batch[2].name

\* ------------------------------------------------ properties of the store calls
\* the steps in which updateSessionDate is called: the one that finds no session
\* returns at once, the other leaves its request behind
UpdateDateReturnsAtOnce ==
    /\ dbh'.ops = dbh.ops + 1
    /\ dbh'.done = "updateSessionDate"
    /\ calls' = calls /\ sync' = sync
UpdateDateStarts ==
    /\ Len(calls') = Len(calls) + 1
    /\ calls'[Len(calls')].name = "updateSessionDate"

\* C21: updateSessionDate(id, newDate) with an id that is not in the store
\* changes nothing (list, cache, no remote update); with an id that is in the
\* store only the date of that session changes, the cache is rewritten and one
\* remote update is attempted.
C21_UpdateDateFrame ==
    [][/\ UpdateDateReturnsAtOnce =>
            sessions' = sessions /\ cache' = cache /\ remote' = remote
       /\ UpdateDateStarts =>
            LET queue == calls'[Len(calls')].queue
                row == queue[1].rows[1]
                i == FindIndex(sessions, LAMBDA s : s.id = row.id)
            IN  /\ Len(queue) = 1 /\ queue[1].verb = "update"
                /\ i # 0
                /\ sessions' = [sessions EXCEPT ![i].date = row.date]
                /\ cache' = Some(sessions')
                /\ remote' = remote]_vars
C21_Witness ==
    /\ Len(sessions) = 2
    /\ sessions[1].date # sessions[2].date
    /\ calls # << >> /\ calls[1].name = "updateSessionDate"
    /\ dbh.done = "addSessions"
C21_WitnessAbsent ==
    /\ dbh.done = "updateSessionDate"
    /\ calls = << >>
    /\ sessions = << >>
    /\ remote = << >>
    /\ dbh.ops = 1

\* the steps of reset: the call (with a list, or with none so that it returns
\* at once) and the answer to one of its deletes
ResetStarts ==
    \/ Len(calls') = Len(calls) + 1 /\ calls'[Len(calls')].name = "reset"
    \/ /\ dbh'.ops = dbh.ops + 1 /\ dbh'.done = "reset"
       /\ calls' = calls /\ sync' = sync
ResetAnswered(i) ==
    /\ calls[i].name = "reset"
    /\ \/ calls' = Splice1(calls, i)
       \/ Len(calls') = Len(calls) /\ calls'[i] # calls[i]

\* C22: when the synchronous part of reset has run the list is empty and the
\* cache entry is removed; a remote delete is then issued for every session
\* that was in the list, and a delete that fails neither stops the deletes of
\* the other sessions nor brings any local state back.
C22_ResetWipes ==
    [][/\ ResetStarts =>
            /\ sessions' = << >>
            /\ cache' = Null
            /\ remote' = remote
            /\ LET queue == IF calls' = calls THEN << >> ELSE calls'[Len(calls')].queue
               IN  queue = [i \in 1..Len(sessions) |-> deleteSession(sessions[i].id)]
       /\ \A i \in 1..Len(calls) : ResetAnswered(i) =>
            /\ sessions' = sessions
            /\ cache' = cache
            /\ IF Len(calls[i].queue) = 1 THEN calls' = Splice1(calls, i)
               ELSE calls' = [calls EXCEPT ![i].queue = Tail(calls[i].queue)]
            /\ remote' \in {remote,
                            SelectSeq(remote, LAMBDA r : r.id # Head(calls[i].queue).id)}]_vars
C22_Witness ==
    /\ calls # << >> /\ calls[1].name = "reset"
    /\ Len(calls[1].queue) = 1
    /\ dbh.anyFailed
    /\ Len(remote) = 2
    /\ sessions = << >> /\ cache = Null

\* C23: loadFromJson gives each object of the document one outcome: it takes the
\* place of the session of its (title, date) key when that session is not of
\* type 'strava', or else it is appended as a new session; so every object of
\* the document is in the store after the call.
C23_EveryItemStored ==
    Loaded => \A i \in 1..Len(gh.items) : Has(sessions, gh.items[i])

\* ------------------------------------------------- properties of the spotlight
\* C24: when syncStrava has inserted a session, the session handed to
\* showSpotlight is the last one the batch inserted (a session made from an
\* activity, of type 'strava'), also when addSessions of the add form runs
\* between the awaited calls of the import; when nothing was inserted there is
\* no spotlight.
C24_SpotlightIsLastInserted ==
    sy.pc = "done" =>
        /\ sy.added = 0 => sy.spotlight = Null
        /\ sy.spotlight # Null => sy.spotlight[1].type = "strava"

\* ------------------------------------------------- properties of the answers
\* C25: a 401 answer of the provider to a request that carries the token (the
\* activity list, an activity detail, the calendar requests) clears the stored
\* tokens of that provider; another failed answer leaves them as they are.
C25_UnauthorizedClearsTokens ==
    [][(op.pc = "requesting" /\ op'.pc = "done") =>
          IF op'.answer = "401"
          THEN tokens'[op.pr] = Null /\ storage'[op.pr] = Null
          ELSE tokens' = tokens /\ storage' = storage]_vars

\* --------------------------------------------------- properties of the cache
\* C26: whenever a path has changed the list (loadFromJson, addSession,
\* addSessions, updateSessionDate, updateSessionFeedback, removeSession,
\* upsertSessions, a successful syncFromSupabase, the in-place update of the
\* import of App.vue), the cache holds the list at the end of that path's
\* synchronous step: no step changes the list without writing it to the cache.
C26_CacheFollowsList ==
    [][sessions' # sessions => cache' = Some(sessions')]_vars

\* ------------------------------------------------ properties of the counters
\* C27: the 'added' count of syncStrava is the number of sessions the batch
\* inserted and the 'replaced planned' count the number of planned sessions it
\* removed: length after = length before + added - replaced, and
\* replaced <= added.
C27_CountersMatch ==
    [][(sy.pc = "fetchApp" /\ sy'.pc = "done") =>
          /\ Len(sessions') = Len(sessions) + sy'.added - sy'.removedPlanned
          /\ sy'.removedPlanned <= sy'.added]_vars

\* the import of part_001, when no other operation ran between its steps
C27_CountersOfLoop ==
    (sy.pc = "done" /\ gh.clean /\ gh.batch # << >>) =>
        /\ Len(sessions) = Len(gh.pre) + sy.added - sy.replacedPlanned
        /\ sy.replacedPlanned <= sy.added

\* ------------------------------------------------------ properties of the ids
\* C28: in every state of the store no two sessions of the list have the same
\* id, after any sequence of addSession, addSessions, loadFromJson (also of
\* objects that carry an id, as a re-imported export does), upsertSessions,
\* updateSessionDate, removeSession and imports of activities.
C28_UniqueIds ==
    \A i, j \in 1..Len(sessions) : sessions[i].id = sessions[j].id => i = j

\* --------------------------------------------- properties of the connections
\* C29: once disconnect() was called no tokens are stored, in memory or in
\* localStorage, until a later handleCallback succeeds, also when a refresh
\* exchange or a request started before the disconnect is answered after it:
\* only handleCallback brings a provider from no tokens to tokens.
C29_DisconnectedUntilCallback ==
    [][\A pr \in Providers :
          (tokens[pr] = Null /\ (tokens'[pr] # Null \/ storage'[pr] # Null)) =>
              (op.pc \in {"idle", "done"} /\ op' = OpIdle)]_vars

\* C30: when two operations that need the token run at one time on an expiring
\* token, the tokens a successful refresh exchange has saved are not cleared by
\* the failure of another exchange that was started before: the operation whose
\* exchange is answered while the stored tokens are no longer those it started
\* with leaves tokens stored.
C30_RefreshRace ==
    [][(/\ op.pc = "refreshing" /\ op'.pc # "refreshing"
        /\ tokens[op.pr] # Null
        /\ tokens[op.pr] # op.startTokens) => tokens'[op.pr] # Null]_vars
====
